---- MODULE Spec2Model ----
(***************************************************************************)
(* Model of the act parser of TrueGen_bot_w: app/parser.py (clean_text,    *)
(* ActParser.parse_act, ActParser._parse_item), app/models.py (ActItem,    *)
(* ActData) and app/preview.py (_format_number, format_act_as_text).       *)
(*                                                                         *)
(* Text is a sequence of Unicode code points (TLA+ strings cannot be       *)
(* indexed): 32 is the space, 10 the newline, 48..57 the digits, 97..122   *)
(* a-z, 65..90 A-Z, 1072..1103 the Cyrillic а-я, 1040..1071 А-Я, 215 the   *)
(* multiplication sign, 8381 the rouble sign.  Every literal of the source *)
(* is written as its code points with the text in a comment.               *)
(*                                                                         *)
(* Numbers (Python floats) are exact decimals counted in thousandths:      *)
(* 1500 stands for 1.5.  The inputs carry at most three fractional digits. *)
(***************************************************************************)
EXTENDS Integers, Sequences, FiniteSets, TLC

VARIABLES
    input,     \* the pieces the message (or the line) was written from
    text,      \* the message text handed to parse_act
    pc,        \* "start", "parsed", "rendered", "done"; "line", "item";
               \* "text", "cleaned", "cleaned twice";
               \* "act", "template", "document", "plain document"
    act,       \* outcome of parse_act(text): an act or the error raised
    canon,     \* format_act_as_text(act), when act is an act
    act2,      \* outcome of parse_act(canon)
    line,      \* the line handed to _parse_item
    item,      \* outcome of _parse_item(line)
    sanitized, \* clean_text(text)
    sanitized2, \* clean_text(sanitized)
    template,  \* the document at templates/act_template.docx, or None
    doc,       \* the document generate_act saved
    fsm,       \* the dispatcher's storage: the FSM state of each user
    user_contexts, \* handlers.user_contexts: the UserContext of each user
    tasks,     \* the handler calls in progress, one per message being handled
    sent,      \* the replies the bot sent, per message handled
    parses,    \* the number of calls of parse_act, per message handled
    files,     \* the files under OUTPUT_DIR: path to content
    now        \* datetime.now(), in whole seconds

parserVarsButPc == <<input, text, act, canon, act2, line, item, sanitized, sanitized2>>
parserVars == <<parserVarsButPc, pc>>
docVars == <<template, doc>>
botVars == <<fsm, user_contexts, tasks, sent, parses, files, now>>
vars == <<parserVars, docVars, botVars>>

-----------------------------------------------------------------------------
(* Local variables *)

\* F applied to the value of v: "x = v; return F(x)", v being computed once
\* however often F reads it
Eval(v, F(_)) == CHOOSE result \in {F(x) : x \in {v}} : TRUE

-----------------------------------------------------------------------------
(* Characters *)

\* str.lower() of one character (Latin, Cyrillic, Ё)
Lower(c) ==
    IF c \in 65..90 \/ c \in 1040..1071 THEN c + 32
    ELSE IF c = 1025 THEN 1105 ELSE c

\* str.upper() of one character
Upper(c) ==
    IF c \in 97..122 \/ c \in 1072..1103 THEN c - 32
    ELSE IF c = 1105 THEN 1025 ELSE c

\* str.lower()
LowerStr(s) == [i \in 1..Len(s) |-> Lower(s[i])]

\* the characters str.split(), str.strip() and \s take as whitespace
Whitespace == {9, 10, 11, 12, 13, 32, 160}

\* \d
Digits == 48..57

\* the characters a class matches under re.IGNORECASE
IgnoreCase(S) == S \cup {Lower(c) : c \in S} \cup {Upper(c) : c \in S}

-----------------------------------------------------------------------------
(* Regular expressions: a pattern is a sequence of nodes.  Python's re     *)
(* matches by backtracking: a greedy repeat tries the longest run first, a *)
(* lazy one the shortest, an alternation its branches left to right, and   *)
(* the match is the first way that succeeds.  Every repeat of the source's *)
(* patterns is a repeat of one character class, so a repeat is one node.   *)
(* The patterns have no backreference, so whether the rest of a pattern    *)
(* matches depends on the position alone: the ways of matching are kept as *)
(* threads [pos, caps, key], key being the choices made in the order in    *)
(* which backtracking tries them, and of two threads at one position the   *)
(* one backtracking would reach first is kept.                             *)

\* [S]
Set(S)       == << [t |-> "rep", cs |-> S, neg |-> FALSE, min |-> 1, max |-> 1,
                    many |-> FALSE, greedy |-> TRUE] >>
\* [^S]
NotSet(S)    == << [t |-> "rep", cs |-> S, neg |-> TRUE, min |-> 1, max |-> 1,
                    many |-> FALSE, greedy |-> TRUE] >>
\* x*, x+, x+? and x{lo,hi} for a character class x
Star(x)      == << [x[1] EXCEPT !.min = 0, !.many = TRUE] >>
Plus(x)      == << [x[1] EXCEPT !.min = 1, !.many = TRUE] >>
LazyPlus(x)  == << [x[1] EXCEPT !.min = 1, !.many = TRUE, !.greedy = FALSE] >>
Repeat(x, lo, hi) == << [x[1] EXCEPT !.min = lo, !.max = hi] >>
\* a|b and x?
Alt(a, b)    == << [t |-> "alt", a |-> a, b |-> b] >>
Opt(x)       == Alt(x, << >>)
\* (?P<g>x)
Group(g, x)  == << [t |-> "open", g |-> g] >> \o x \o << [t |-> "close", g |-> g] >>
\* $
Eol          == << [t |-> "eol"] >>
\* .
Dot          == NotSet({10})
\* a literal, under re.IGNORECASE and without it
Lit(w)       == << [t |-> "lit", w |-> w, ic |-> TRUE] >>
LitExact(w)  == << [t |-> "lit", w |-> w, ic |-> FALSE] >>

GroupNames == {"name", "quantity", "unit", "price", "date", "object_name",
               "d", "m", "Y", "nights"}

\* group g took no part in the match
NoGroup == <<0, 0>>
NoCaps  == [g \in GroupNames |-> NoGroup]
NoMatch == [ok |-> FALSE, pos |-> 0, caps |-> NoCaps]

\* the character c is one the class node h matches
InClass(h, c) == IF h.neg THEN c \notin h.cs ELSE c \in h.cs

\* the longest run of characters of class h from position i, up to its max
RunLength(s, h, i) ==
    LET avail == Len(s) - i + 1
        lim   == IF h.many \/ avail < h.max THEN avail ELSE h.max
    IN CHOOSE j \in 0..lim : /\ j = lim \/ ~InClass(h, s[i + j])
                             /\ \A k \in 0..(j - 1) : InClass(h, s[i + k])

\* the choices of k1 come before those of k2 in backtracking order
Less(k1, k2) ==
    \E i \in 1..(IF Len(k1) < Len(k2) THEN Len(k1) ELSE Len(k2)) :
        k1[i] < k2[i] /\ \A j \in 1..(i - 1) : k1[j] = k2[j]

\* of the threads at one position, the one tried first
Prune(T) == {t \in T : \A u \in T : u.pos = t.pos => ~Less(u.key, t.key)}

\* the thread t after the literal w, if w is at its position
AfterLit(s, h, t) ==
    IF /\ t.pos + Len(h.w) - 1 <= Len(s)
       /\ IF h.ic
          THEN LowerStr(SubSeq(s, t.pos, t.pos + Len(h.w) - 1)) = LowerStr(h.w)
          ELSE SubSeq(s, t.pos, t.pos + Len(h.w) - 1) = h.w
    THEN {[t EXCEPT !.pos = @ + Len(h.w)]} ELSE {}

\* the threads of t after the repeat h: one for each count from h.min to the
\* run, a greedy repeat trying the longest first and a lazy one the shortest
AfterRep(h, t, run) ==
    {[pos  |-> t.pos + c, caps |-> t.caps,
      key  |-> Append(t.key, IF h.greedy THEN run - c ELSE c - h.min)] :
        c \in h.min..run}

RECURSIVE Run(_, _, _, _, _)
\* the threads T after the node h
Step(s, h, T) ==
    CASE h.t = "rep"   -> Eval(UNION {AfterRep(h, tr[1], tr[2]) :
                                        tr \in {<<t, RunLength(s, h, t.pos)>> : t \in T}},
                               Prune)
      [] h.t = "lit"   -> UNION {AfterLit(s, h, t) : t \in T}
      [] h.t = "alt"   -> Eval(Run(s, h.a, 1, Len(h.a),
                                   {[t EXCEPT !.key = Append(@, 0)] : t \in T})
                               \cup Run(s, h.b, 1, Len(h.b),
                                        {[t EXCEPT !.key = Append(@, 1)] : t \in T}),
                               Prune)
      [] h.t = "open"  -> {[t EXCEPT !.caps[h.g] = <<t.pos, 0>>] : t \in T}
      [] h.t = "close" -> {[t EXCEPT !.caps[h.g] = <<@[1], t.pos>>] : t \in T}
      [] h.t = "eol"   -> {t \in T : t.pos = Len(s) + 1
                                     \/ (t.pos = Len(s) /\ s[t.pos] = 10)}

\* the threads T after the nodes k[lo..hi], one after the other
Run(s, k, lo, hi, T) ==
    IF lo > hi THEN T
    ELSE IF lo = hi THEN Eval(T, LAMBDA threads : Step(s, k[lo], threads))
    ELSE Eval(Run(s, k, lo, (lo + hi) \div 2, T), LAMBDA threads :
              IF threads = {} THEN {}
              ELSE Run(s, k, (lo + hi) \div 2 + 1, hi, threads))

\* the match of pattern from position i of s on: the first way backtracking finds
MatchAt(s, pattern, i) ==
    Eval(Run(s, pattern, 1, Len(pattern), {[pos |-> i, caps |-> NoCaps, key |-> << >>]}),
         LAMBDA T :
             IF T = {} THEN NoMatch
             ELSE LET t == CHOOSE x \in T : \A u \in T : u = x \/ Less(x.key, u.key)
                  IN [ok |-> TRUE, pos |-> t.pos, caps |-> t.caps])

\* re.match(pattern, s): anchored at the start only
ReMatch(pattern, s) == MatchAt(s, pattern, 1)

\* re.search(pattern, s): the leftmost match
ReSearch(pattern, s) ==
    Eval({i \in 1..(Len(s) + 1) : MatchAt(s, pattern, i).ok}, LAMBDA starts :
         IF starts = {} THEN NoMatch
         ELSE MatchAt(s, pattern, CHOOSE i \in starts : \A j \in starts : i <= j))

\* match.group(g)
HasGroup(m, g)  == m.caps[g] # NoGroup
GroupText(s, m, g) == SubSeq(s, m.caps[g][1], m.caps[g][2] - 1)

-----------------------------------------------------------------------------
(* Strings *)

\* str.strip(chars); str.strip() is Strip(s, Whitespace)
Strip(s, chars) ==
    Eval({i \in 1..Len(s) : s[i] \notin chars}, LAMBDA keep :
         IF keep = {} THEN << >>
         ELSE SubSeq(s, CHOOSE i \in keep : \A j \in keep : i <= j,
                        CHOOSE i \in keep : \A j \in keep : i >= j))

\* the k-th smallest element of a set of numbers
Nth(S, k) == CHOOSE x \in S : Cardinality({y \in S : y <= x}) = k

\* w in s
Contains(s, w) ==
    \E i \in 1..(Len(s) - Len(w) + 1) : SubSeq(s, i, i + Len(w) - 1) = w

\* the characters of s that are in S, in order
Keep(s, S) == SelectSeq(s, LAMBDA c : c \in S)

\* str.replace(a, b) for single characters
ReplaceChar(s, a, b) == [i \in 1..Len(s) |-> IF s[i] = a THEN b ELSE s[i]]

\* s.split(sep) for a one-character separator
SplitOn(s, sep) ==
    Eval({i \in 1..Len(s) : s[i] = sep} \cup {0, Len(s) + 1}, LAMBDA cuts :
         [k \in 1..(Cardinality(cuts) - 1) |->
             SubSeq(s, Nth(cuts, k) + 1, Nth(cuts, k + 1) - 1)])

RECURSIVE Join(_, _)
\* sep.join(parts)
Join(parts, sep) ==
    IF parts = << >> THEN << >>
    ELSE IF Len(parts) = 1 THEN parts[1]
    ELSE parts[1] \o sep \o Join(Tail(parts), sep)

\* s.split(): the maximal runs of non-whitespace characters
SplitWords(s) ==
    Eval(<< {i \in 1..Len(s) : s[i] \notin Whitespace
                              /\ (i = 1 \/ s[i - 1] \in Whitespace)},
            {i \in 1..Len(s) : s[i] \notin Whitespace
                              /\ (i = Len(s) \/ s[i + 1] \in Whitespace)} >>,
         LAMBDA runs :
             LET starts == runs[1]
                 ends   == runs[2]
             IN [k \in 1..Cardinality(starts) |->
                    SubSeq(s, Nth(starts, k), Nth(ends, k))])

-----------------------------------------------------------------------------
(* Numbers *)

RECURSIVE DigitsValue(_)
DigitsValue(ds) ==
    IF ds = << >> THEN 0
    ELSE DigitsValue(SubSeq(ds, 1, Len(ds) - 1)) * 10 + (ds[Len(ds)] - 48)

\* the first three fractional digits, as thousandths
FractionValue(ds) ==
    DigitsValue(SubSeq(ds \o <<48, 48, 48>>, 1, 3))

\* float(s) for a text of digits, dots and surrounding whitespace: the value
\* in thousandths, or ok = FALSE where float raises ValueError
ParseFloat(s) ==
    Eval(Strip(s, Whitespace), LAMBDA t :
         LET dots == {i \in 1..Len(t) : t[i] = 46}
             dot  == IF dots = {} THEN Len(t) + 1 ELSE CHOOSE i \in dots : TRUE
         IN IF \/ Cardinality(dots) > 1
               \/ \E i \in 1..Len(t) : t[i] \notin Digits \cup {46}
               \/ Keep(t, Digits) = << >>
            THEN [ok |-> FALSE, v |-> 0]
            ELSE [ok |-> TRUE,
                  v  |-> DigitsValue(SubSeq(t, 1, dot - 1)) * 1000
                         + FractionValue(SubSeq(t, dot + 1, Len(t)))])

\* n rounded to the nearest multiple of unit, ties to even
RoundTo(n, unit) ==
    LET q == n \div unit
        r == n % unit
    IN IF 2 * r < unit THEN q
       ELSE IF 2 * r > unit THEN q + 1
       ELSE IF q % 2 = 0 THEN q ELSE q + 1

\* round(x, 2) of a value in thousandths, in hundredths
Round2(x) == RoundTo(x, 10)

\* round(a * b, 2) of two values in thousandths, in hundredths
RoundProduct2(a, b) ==
    LET ai == a \div 1000
        af == a % 1000
        bi == b \div 1000
        bf == b % 1000
    IN ai * bi * 100 + RoundTo((ai * bf + af * bi) * 1000 + af * bf, 10000)

-----------------------------------------------------------------------------
(* ActItem, app/models.py *)

\* _parse_item's "no item"
None == [kind |-> "None"]

\* an exception of class exc leaving a function
Raise(exc) == [kind |-> "raise", exc |-> exc]

\* ActItem(name=..., quantity=..., unit=..., price=...): the fields
\* quantity and price are declared gt=0, and pydantic's ValidationError is
\* a ValueError
ActItem(name, quantity, unit, price) ==
    IF quantity > 0 /\ price > 0
    THEN [kind |-> "item", name |-> name, quantity |-> quantity,
          unit |-> unit, price |-> price]
    ELSE Raise("ValueError")

\* ActItem.__hash__: the tuple that is hashed, the price in hundredths
ItemHash(x) == <<LowerStr(x.name), LowerStr(x.unit), Round2(x.price)>>

\* ActItem.__eq__
ItemEq(x, y) ==
    /\ LowerStr(x.name) = LowerStr(y.name)
    /\ LowerStr(x.unit) = LowerStr(y.unit)
    /\ (IF x.price >= y.price THEN x.price - y.price ELSE y.price - x.price) < 10

\* round(quantity * round(price, 2), 2) in place of round(quantity * price, 2)
TotalOfRoundedPrice(x) == RoundProduct2(x.quantity, Round2(x.price) * 10)

\* ActItem.total, in hundredths
ItemTotal(x) == RoundProduct2(x.quantity, x.price)

-----------------------------------------------------------------------------
(* ActParser, app/parser.py *)

WS == Set(Whitespace)
D  == Set(Digits)
\* [.,]
DecimalSep == Set({46, 44})
\* [а-яa-z.] under re.IGNORECASE
UnitChar == Set(IgnoreCase((1072..1103) \cup (97..122) \cup {46}))
\* [xх] (Latin and Cyrillic) under re.IGNORECASE
Times == Set(IgnoreCase({120, 1093}))
\* [×x*] under re.IGNORECASE
Separator == Set(IgnoreCase({215, 120, 42}))
\* [₽р] under re.IGNORECASE
Rouble == Set(IgnoreCase({8381, 1088}))

ITEM_PATTERN ==
    Group("name", LazyPlus(Dot)) \o Plus(WS)
    \o Group("quantity",
             Plus(D) \o Opt(DecimalSep \o Plus(D))
             \o Opt(Star(WS) \o Times \o Star(WS) \o Plus(D)))
    \o Opt(Star(WS) \o Group("unit", Plus(UnitChar))
           \o Opt(Plus(WS) \o Star(UnitChar)))
    \o Star(WS) \o Separator \o Star(WS)
    \o Group("price",
             Plus(D) \o Opt(DecimalSep \o Plus(D))
             \o Opt(Star(WS) \o Opt(Rouble) \o Star(WS) \o Star(UnitChar)))
    \o Star(WS) \o Alt(Rouble, Eol)

\* (?:по|:)
ByWord == Alt(Lit(<<1087, 1086>>), Lit(<<58>>))

\* "3 кальяна по 1224": (?P<quantity>\d+)\s+(?P<name>[^\d]+)(?:по|:)\s*(?P<price>\d+)
COUNT_BY_PATTERN ==
    Group("quantity", Plus(D)) \o Plus(WS)
    \o Group("name", Plus(NotSet(Digits)))
    \o ByWord \o Star(WS) \o Group("price", Plus(D))

\* "стойка слабаточная, 18 модулей по 1000р":
\* (?P<name>.+?)[,;]\s*(?P<quantity>\d+)\s+(?:модул|мод\.?|шт\.?)\s*(?:по|:)?\s*(?P<price>\d+)
MODULE_PATTERN ==
    Group("name", LazyPlus(Dot)) \o Set({44, 59}) \o Star(WS)
    \o Group("quantity", Plus(D)) \o Plus(WS)
    \o Alt(Lit(<<1084, 1086, 1076, 1091, 1083>>),
           Alt(Lit(<<1084, 1086, 1076>>) \o Opt(Lit(<<46>>)),
               Lit(<<1096, 1090>>) \o Opt(Lit(<<46>>))))
    \o Star(WS) \o Opt(ByWord) \o Star(WS)
    \o Group("price", Plus(D))

\* (\d+)\s+ноч, searched in line.lower() without flags
NIGHTS_PATTERN ==
    Group("nights", Plus(D)) \o Plus(WS) \o LitExact(<<1085, 1086, 1095>>)

\* no unit at all
NoUnit == << >>

\* 'шт.'
DefaultUnit == <<1096, 1090, 46>>
\* 'мод.'
ModuleUnit == <<1084, 1086, 1076, 46>>

\* the unit kept as written: unit in place of UNIT_ALIASES.get(unit, unit)
UnitAsWritten(unit) == unit

\* UNIT_ALIASES.get(unit, unit)
UNIT_ALIASES(unit) ==
    CASE unit = <<1096, 1090>>             -> <<1096, 1090, 46>>   \* 'шт': 'шт.'
      [] unit = <<1096, 1090, 1091, 1082>> -> <<1096, 1090, 46>>   \* 'штук': 'шт.'
      [] unit = <<1084>>                   -> <<1084>>             \* 'м': 'м'
      [] unit = <<1084, 1077, 1090, 1088>> -> <<1084>>             \* 'метр': 'м'
      [] unit = <<1082, 1075>>             -> <<1082, 1075>>       \* 'кг': 'кг'
      [] unit = <<1082, 1080, 1083, 1086, 1075, 1088, 1072, 1084, 1084>>
                                           -> <<1082, 1075>>       \* 'килограмм': 'кг'
      [] unit = <<1082, 1086, 1084, 1087, 1083>>
                                           -> <<1082, 1086, 1084, 1087, 1083, 46>>  \* 'компл': 'компл.'
      [] unit = <<1082, 1086, 1084, 1087, 1083, 1077, 1082, 1090>>
                                           -> <<1082, 1086, 1084, 1087, 1083, 46>>  \* 'комплект': 'компл.'
      [] OTHER -> unit

\* the branch for "<N> <name> по <price>" with the name trimmed of spaces only
CountByItemUntrimmed(ln, m, nights) ==
    Eval(<< Strip(GroupText(ln, m, "name"), {32}),
            ParseFloat(GroupText(ln, m, "quantity")).v,
            ParseFloat(GroupText(ln, m, "price")).v >>,
         LAMBDA f : ActItem(f[1], f[2], DefaultUnit, f[3]))

\* the branch of _parse_item for "<N> <name> по <price>"; nights tells
\* whether the branch is the one that multiplies the price by the nights
CountByItem(ln, m, nights) ==
    LET name     == Strip(GroupText(ln, m, "name"), {32, 44})
        quantity == ParseFloat(GroupText(ln, m, "quantity")).v
        price    == ParseFloat(GroupText(ln, m, "price")).v
        factor   == IF nights /\ Contains(LowerStr(ln), <<1085, 1086, 1095>>)
                    THEN Eval(ReSearch(NIGHTS_PATTERN, LowerStr(ln)), LAMBDA nm :
                              IF nm.ok
                              THEN ParseFloat(GroupText(LowerStr(ln), nm, "nights")).v
                                   \div 1000
                              ELSE 1)
                    ELSE 1
    IN Eval(<<name, quantity, price * factor>>, LAMBDA f :
            ActItem(f[1], f[2], DefaultUnit, f[3]))

\* the branch of _parse_item for "<name>, <N> модул... по <price>"
ModuleItem(ln, m) ==
    Eval(<< Strip(GroupText(ln, m, "name"), Whitespace),
            ParseFloat(GroupText(ln, m, "quantity")).v,
            ParseFloat(GroupText(ln, m, "price")).v >>,
         LAMBDA f : ActItem(f[1], f[2], ModuleUnit, f[3]))

\* re.split(r'[xх]', quantity_str, maxsplit=1)
SplitTimes(q) ==
    LET at == {i \in 1..Len(q) : q[i] \in {120, 1093}}
        i  == CHOOSE j \in at : \A k \in at : j <= k
    IN << SubSeq(q, 1, i - 1), SubSeq(q, i + 1, Len(q)) >>

\* the quantity read without its multiplier: the number before the x
QuantityBeforeTimes(quantity_str) ==
    IF \E i \in 1..Len(quantity_str) : quantity_str[i] \in {120, 1093}
    THEN ParseFloat(ReplaceChar(Strip(SplitTimes(quantity_str)[1], Whitespace), 44, 46))
    ELSE ParseFloat(ReplaceChar(quantity_str, 44, 46))

\* the quantity of the standard format, with its multiplier ("3 x 1224")
StandardQuantity(quantity_str) ==
    IF \E i \in 1..Len(quantity_str) : quantity_str[i] \in {120, 1093}
    THEN Eval(SplitTimes(quantity_str), LAMBDA parts :
              Eval(<< ParseFloat(ReplaceChar(Strip(parts[1], Whitespace), 44, 46)),
                      ParseFloat(ReplaceChar(Strip(parts[2], Whitespace), 44, 46)) >>,
                   LAMBDA f :
                       LET qty        == f[1]
                           multiplier == f[2]
                       IN IF qty.ok /\ multiplier.ok
                          THEN [ok |-> TRUE, v |-> (qty.v * multiplier.v) \div 1000]
                          ELSE [ok |-> FALSE, v |-> 0]))
    ELSE ParseFloat(ReplaceChar(quantity_str, 44, 46))

\* the standard format of _parse_item, for a match of ITEM_PATTERN
StandardItem(ln, match) ==
    LET name         == Strip(GroupText(ln, match, "name"), Whitespace)
        quantity_str == GroupText(ln, match, "quantity")
        unit_str     == IF HasGroup(match, "unit") /\ GroupText(ln, match, "unit") # << >>
                        THEN GroupText(ln, match, "unit") ELSE DefaultUnit
        unit         == LowerStr(unit_str)
        price_str    == Keep(GroupText(ln, match, "price"), Digits \cup {46, 44})
    IN Eval(<< StandardQuantity(quantity_str),
               ParseFloat(ReplaceChar(price_str, 44, 46)),
               Strip(name, Whitespace),
               UNIT_ALIASES(unit) >>,
            LAMBDA f :
                LET quantity == f[1]
                    price    == f[2]
                IN IF ~quantity.ok \/ ~price.ok THEN Raise("ValueError")
                   ELSE ActItem(f[3], quantity.v, f[4], price.v))

\* the body of _parse_item's try block
ParseItemBody(line0) ==
    Eval(Join(SplitWords(line0), <<32>>), LAMBDA ln :
    Eval(ReMatch(ITEM_PATTERN, ln), LAMBDA match :
         IF ~match.ok
         THEN Eval(ReMatch(COUNT_BY_PATTERN, ln), LAMBDA alt :
                   IF alt.ok THEN CountByItem(ln, alt, FALSE)
                   ELSE IF alt.ok THEN CountByItem(ln, alt, TRUE)
                   ELSE Eval(ReMatch(MODULE_PATTERN, ln), LAMBDA mod :
                             IF mod.ok THEN ModuleItem(ln, mod)
                             ELSE IF alt.ok THEN CountByItem(ln, alt, FALSE)
                             ELSE None))
         ELSE StandardItem(ln, match)))

\* the classes _parse_item's except clause catches
ParseItemCaught == {"ValueError", "AttributeError"}

\* ActParser._parse_item(line)
_parse_item(line0) ==
    Eval(ParseItemBody(line0), LAMBDA r :
         IF r.kind = "raise" /\ r.exc \in ParseItemCaught THEN None ELSE r)

-----------------------------------------------------------------------------
(* clean_text, app/parser.py *)

\* the dictionary in its iteration order: a key written twice keeps its
\* first place and its last value ('выездных': 'выездных бригадах')
WORD_REPLACEMENTS == <<
    \* 'шлюх': 'Девушки'
    << <<1096, 1083, 1102, 1093>>,
       <<1044, 1077, 1074, 1091, 1096, 1082, 1080>> >>,
    \* 'проститутк': 'персонал'
    << <<1087, 1088, 1086, 1089, 1090, 1080, 1090, 1091, 1090, 1082>>,
       <<1087, 1077, 1088, 1089, 1086, 1085, 1072, 1083>> >>,
    \* 'кальян': 'оборудование'
    << <<1082, 1072, 1083, 1100, 1103, 1085>>,
       <<1086, 1073, 1086, 1088, 1091, 1076, 1086, 1074, 1072, 1085, 1080, 1077>> >>,
    \* 'по 10ке': 'по договорённости'
    << <<1087, 1086, 32, 49, 48, 1082, 1077>>,
       <<1087, 1086, 32, 1076, 1086, 1075, 1086, 1074, 1086, 1088, 1105, 1085, 1085, 1086, 1089, 1090, 1080>> >>,
    \* 'за ночь': 'за смену'
    << <<1079, 1072, 32, 1085, 1086, 1095, 1100>>,
       <<1079, 1072, 32, 1089, 1084, 1077, 1085, 1091>> >>,
    \* 'за сутки': 'за период'
    << <<1079, 1072, 32, 1089, 1091, 1090, 1082, 1080>>,
       <<1079, 1072, 32, 1087, 1077, 1088, 1080, 1086, 1076>> >>,
    \* 'три ночи': 'три смены'
    << <<1090, 1088, 1080, 32, 1085, 1086, 1095, 1080>>,
       <<1090, 1088, 1080, 32, 1089, 1084, 1077, 1085, 1099>> >>,
    \* 'ночей': 'смен'
    << <<1085, 1086, 1095, 1077, 1081>>,
       <<1089, 1084, 1077, 1085>> >>,
    \* 'ночь': 'смена'
    << <<1085, 1086, 1095, 1100>>,
       <<1089, 1084, 1077, 1085, 1072>> >>,
    \* 'девушк': 'ассистент'
    << <<1076, 1077, 1074, 1091, 1096, 1082>>,
       <<1072, 1089, 1089, 1080, 1089, 1090, 1077, 1085, 1090>> >>,
    \* 'девочк': 'ассистент'
    << <<1076, 1077, 1074, 1086, 1095, 1082>>,
       <<1072, 1089, 1089, 1080, 1089, 1090, 1077, 1085, 1090>> >>,
    \* 'мальчик': 'ассистент'
    << <<1084, 1072, 1083, 1100, 1095, 1080, 1082>>,
       <<1072, 1089, 1089, 1080, 1089, 1090, 1077, 1085, 1090>> >>,
    \* 'мальчиков': 'ассистентов'
    << <<1084, 1072, 1083, 1100, 1095, 1080, 1082, 1086, 1074>>,
       <<1072, 1089, 1089, 1080, 1089, 1090, 1077, 1085, 1090, 1086, 1074>> >>,
    \* 'девушек': 'ассистентов'
    << <<1076, 1077, 1074, 1091, 1096, 1077, 1082>>,
       <<1072, 1089, 1089, 1080, 1089, 1090, 1077, 1085, 1090, 1086, 1074>> >>,
    \* 'девочек': 'ассистентов'
    << <<1076, 1077, 1074, 1086, 1095, 1077, 1082>>,
       <<1072, 1089, 1089, 1080, 1089, 1090, 1077, 1085, 1090, 1086, 1074>> >>,
    \* 'по вызову': 'по заявке'
    << <<1087, 1086, 32, 1074, 1099, 1079, 1086, 1074, 1091>>,
       <<1087, 1086, 32, 1079, 1072, 1103, 1074, 1082, 1077>> >>,
    \* 'выезд': 'визит'
    << <<1074, 1099, 1077, 1079, 1076>>,
       <<1074, 1080, 1079, 1080, 1090>> >>,
    \* 'выездная': 'выездная бригада'
    << <<1074, 1099, 1077, 1079, 1076, 1085, 1072, 1103>>,
       <<1074, 1099, 1077, 1079, 1076, 1085, 1072, 1103, 32, 1073, 1088, 1080, 1075, 1072, 1076, 1072>> >>,
    \* 'выездные': 'выездные бригады'
    << <<1074, 1099, 1077, 1079, 1076, 1085, 1099, 1077>>,
       <<1074, 1099, 1077, 1079, 1076, 1085, 1099, 1077, 32, 1073, 1088, 1080, 1075, 1072, 1076, 1099>> >>,
    \* 'выездного': 'выездной бригады'
    << <<1074, 1099, 1077, 1079, 1076, 1085, 1086, 1075, 1086>>,
       <<1074, 1099, 1077, 1079, 1076, 1085, 1086, 1081, 32, 1073, 1088, 1080, 1075, 1072, 1076, 1099>> >>,
    \* 'выездной': 'выездной бригады'
    << <<1074, 1099, 1077, 1079, 1076, 1085, 1086, 1081>>,
       <<1074, 1099, 1077, 1079, 1076, 1085, 1086, 1081, 32, 1073, 1088, 1080, 1075, 1072, 1076, 1099>> >>,
    \* 'выездную': 'выездную бригаду'
    << <<1074, 1099, 1077, 1079, 1076, 1085, 1091, 1102>>,
       <<1074, 1099, 1077, 1079, 1076, 1085, 1091, 1102, 32, 1073, 1088, 1080, 1075, 1072, 1076, 1091>> >>,
    \* 'выездными': 'выездными бригадами'
    << <<1074, 1099, 1077, 1079, 1076, 1085, 1099, 1084, 1080>>,
       <<1074, 1099, 1077, 1079, 1076, 1085, 1099, 1084, 1080, 32, 1073, 1088, 1080, 1075, 1072, 1076, 1072, 1084, 1080>> >>,
    \* 'выездных': 'выездных бригадах'
    << <<1074, 1099, 1077, 1079, 1076, 1085, 1099, 1093>>,
       <<1074, 1099, 1077, 1079, 1076, 1085, 1099, 1093, 32, 1073, 1088, 1080, 1075, 1072, 1076, 1072, 1093>> >>,
    \* 'выездным': 'выездным бригадам'
    << <<1074, 1099, 1077, 1079, 1076, 1085, 1099, 1084>>,
       <<1074, 1099, 1077, 1079, 1076, 1085, 1099, 1084, 32, 1073, 1088, 1080, 1075, 1072, 1076, 1072, 1084>> >>
>>

\* ' (названия скорректированы)'
AnnotationSuffix == <<32, 40, 1085, 1072, 1079, 1074, 1072, 1085, 1080, 1103, 32, 1089, 1082, 1086, 1088, 1088, 1077, 1082, 1090, 1080, 1088, 1086, 1074, 1072, 1085, 1099, 41>>

\* the places of s where the lower-case word w occurs, ignoring case
Occurrences(s, w) ==
    {i \in 1..(Len(s) - Len(w) + 1) :
        Lower(s[i]) = w[1] /\ LowerStr(SubSeq(s, i, i + Len(w) - 1)) = w}

RECURSIVE SubIgnoreCase(_, _, _, _)
\* re.sub(re.escape(word), replacement, s, flags=re.IGNORECASE)[from..]:
\* the occurrences are replaced left to right and do not overlap
SubIgnoreCase(s, word, replacement, from) ==
    Eval({i \in Occurrences(s, word) : i >= from}, LAMBDA at :
         IF at = {} THEN SubSeq(s, from, Len(s))
         ELSE Eval(CHOOSE j \in at : \A k \in at : j <= k, LAMBDA i :
                   SubSeq(s, from, i - 1) \o replacement
                   \o SubIgnoreCase(s, word, replacement, i + Len(word))))

RECURSIVE ReplaceWords(_, _, _, _)
\* the loop of clean_text over the entries lo..hi of WORD_REPLACEMENTS, one
\* after the other; the test "word in lower_text" reads the text as it was
\* before any replacement
ReplaceWords(s, lower_text, lo, hi) ==
    IF lo = hi
    THEN IF Contains(lower_text, WORD_REPLACEMENTS[lo][1])
         THEN SubIgnoreCase(s, WORD_REPLACEMENTS[lo][1], WORD_REPLACEMENTS[lo][2], 1)
         ELSE s
    ELSE Eval(ReplaceWords(s, lower_text, lo, (lo + hi) \div 2), LAMBDA cleaned :
              ReplaceWords(cleaned, lower_text, (lo + hi) \div 2 + 1, hi))

\* a sanitizer that annotates every text that is not empty
AnnotateAlways(s) ==
    IF s = << >> THEN s
    ELSE Eval(ReplaceWords(s, LowerStr(s), 1, Len(WORD_REPLACEMENTS)), LAMBDA replaced :
         Eval(Strip(replaced, Whitespace), LAMBDA stripped :
              (IF stripped # << >> /\ stripped[Len(stripped)] = 46
               THEN replaced ELSE Append(replaced, 46))
              \o AnnotationSuffix))

\* clean_text(text)
clean_text(s) ==
    IF s = << >> THEN s
    ELSE Eval(LowerStr(s), LAMBDA lower_text :
         LET has_inappropriate == \E k \in 1..Len(WORD_REPLACEMENTS) :
                                      Contains(lower_text, WORD_REPLACEMENTS[k][1])
         IN IF has_inappropriate
            THEN Eval(ReplaceWords(s, lower_text, 1, Len(WORD_REPLACEMENTS)), LAMBDA replaced :
                 Eval(Strip(replaced, Whitespace), LAMBDA stripped :
                      (IF stripped # << >> /\ stripped[Len(stripped)] = 46
                       THEN replaced ELSE Append(replaced, 46))
                      \o AnnotationSuffix))
            ELSE s)

-----------------------------------------------------------------------------
(* ActParser.parse_act, app/parser.py *)

\* the header pattern with (?P<object_name>\S+) in place of (?P<object_name>.+)
HeaderPatternOneWord ==
    Lit(<<35, 1040, 1050, 1058>>) \o Plus(WS)
    \o Group("date",
             Repeat(D, 1, 2) \o Set({46, 47}) \o Repeat(D, 1, 2) \o Set({46, 47})
             \o Repeat(D, 2, 4))
    \o Star(WS) \o Lit(<<124>>) \o Star(WS)
    \o Lit(<<1054, 1073, 1098, 1077, 1082, 1090, 58>>) \o Star(WS)
    \o Group("object_name", Plus(NotSet(Whitespace)))

\* #АКТ\s+(?P<date>\d{1,2}[./]\d{1,2}[./]\d{2,4})\s*\|\s*Объект:\s*(?P<object_name>.+)
HEADER_PATTERN ==
    Lit(<<35, 1040, 1050, 1058>>) \o Plus(WS)
    \o Group("date",
             Repeat(D, 1, 2) \o Set({46, 47}) \o Repeat(D, 1, 2) \o Set({46, 47})
             \o Repeat(D, 2, 4))
    \o Star(WS) \o Lit(<<124>>) \o Star(WS)
    \o Lit(<<1054, 1073, 1098, 1077, 1082, 1090, 58>>) \o Star(WS)
    \o Group("object_name", Plus(Dot))

\* the pattern datetime.strptime compiles for '%d.%m.%Y':
\* (?P<d>3[0-1]|[1-2]\d|0[1-9]|[1-9]| [1-9])\.(?P<m>1[0-2]|0[1-9]|[1-9])\.(?P<Y>\d\d\d\d)
STRPTIME_PATTERN ==
    Group("d", Alt(Set({51}) \o Set({48, 49}),
               Alt(Set({49, 50}) \o D,
               Alt(Set({48}) \o Set(49..57),
               Alt(Set(49..57),
                   Set({32}) \o Set(49..57))))))
    \o Lit(<<46>>)
    \o Group("m", Alt(Set({49}) \o Set({48, 49, 50}),
               Alt(Set({48}) \o Set(49..57),
                   Set(49..57))))
    \o Lit(<<46>>)
    \o Group("Y", D \o D \o D \o D)

\* a calendar in which every month has 31 days
ThirtyOneDays(y, m) == 31

\* the days of month m of year y
DaysInMonth(y, m) ==
    IF m \in {4, 6, 9, 11} THEN 30
    ELSE IF m # 2 THEN 31
    ELSE IF (y % 4 = 0 /\ y % 100 # 0) \/ y % 400 = 0 THEN 29 ELSE 28

\* datetime.strptime(date_str, '%d.%m.%Y').date(): the date, or ok = FALSE
\* where it raises ValueError (no match, text left over, no such day)
Strptime(date_str) ==
    Eval(ReMatch(STRPTIME_PATTERN, date_str), LAMBDA found :
         IF ~found.ok \/ found.pos # Len(date_str) + 1
         THEN [ok |-> FALSE, year |-> 0, month |-> 0, day |-> 0]
         ELSE Eval(<< DigitsValue(Strip(GroupText(date_str, found, "d"), {32})),
                      DigitsValue(GroupText(date_str, found, "m")),
                      DigitsValue(GroupText(date_str, found, "Y")) >>,
                   LAMBDA f :
                       LET d == f[1]
                           m == f[2]
                           y == f[3]
                       IN IF y < 1 \/ d > DaysInMonth(y, m)
                          THEN [ok |-> FALSE, year |-> 0, month |-> 0, day |-> 0]
                          ELSE [ok |-> TRUE, year |-> y, month |-> m, day |-> d]))

\* 'Пустой акт'
EmptyActMessage == <<1055, 1091, 1089, 1090, 1086, 1081, 32, 1072, 1082, 1090>>
\* 'Неверный формат заголовка. Пример: #АКТ 10.06.2025 | Объект: Название объекта'
HeaderMessage == <<1053, 1077, 1074, 1077, 1088, 1085, 1099, 1081, 32, 1092, 1086, 1088, 1084, 1072, 1090, 32, 1079, 1072, 1075, 1086, 1083, 1086, 1074, 1082, 1072, 46, 32, 1055, 1088, 1080, 1084, 1077, 1088, 58, 32, 35, 1040, 1050, 1058, 32, 49, 48, 46, 48, 54, 46, 50, 48, 50, 53, 32, 124, 32, 1054, 1073, 1098, 1077, 1082, 1090, 58, 32, 1053, 1072, 1079, 1074, 1072, 1085, 1080, 1077, 32, 1086, 1073, 1098, 1077, 1082, 1090, 1072>>
\* f'Неверный формат даты: {date_str}. Используйте ДД.ММ.ГГГГ'
DateMessage(date_str) ==
    <<1053, 1077, 1074, 1077, 1088, 1085, 1099, 1081, 32, 1092, 1086, 1088, 1084, 1072, 1090, 32, 1076, 1072, 1090, 1099, 58, 32>>
    \o date_str
    \o <<46, 32, 1048, 1089, 1087, 1086, 1083, 1100, 1079, 1091, 1081, 1090, 1077, 32, 1044, 1044, 46, 1052, 1052, 46, 1043, 1043, 1043, 1043>>
\* 'Не найдено ни одной позиции в акте'
NoItemsMessage == <<1053, 1077, 32, 1085, 1072, 1081, 1076, 1077, 1085, 1086, 32, 1085, 1080, 32, 1086, 1076, 1085, 1086, 1081, 32, 1087, 1086, 1079, 1080, 1094, 1080, 1080, 32, 1074, 32, 1072, 1082, 1090, 1077>>

\* raise ValueError(message)
ValueError(message) == [kind |-> "error", exc |-> "ValueError", message |-> message]

\* lines = [line.strip() for line in cleaned_text.split('\n')], the blank
\* lines kept
StrippedLines(s) ==
    Eval(SplitOn(s, 10), LAMBDA parts :
         [k \in 1..Len(parts) |-> Strip(parts[k], Whitespace)])

\* lines = [line.strip() for line in cleaned_text.split('\n') if line.strip()]
NonBlankLines(s) ==
    Eval(SplitOn(s, 10), LAMBDA parts :
         SelectSeq([k \in 1..Len(parts) |-> Strip(parts[k], Whitespace)],
                   LAMBDA l : l # << >>))

\* the body of the loop over lines[1:]: the items the line adds
LineItems(l) ==
    IF l = << >> \/ l[1] = 35 THEN << >>
    ELSE Eval(_parse_item(l), LAMBDA r : IF r.kind = "item" THEN << r >> ELSE << >>)

\* x in seen, for a set of items: equal hash and __eq__
InSeen(x, seen) ==
    \E k \in 1..Len(seen) : ItemHash(seen[k]) = ItemHash(x) /\ ItemEq(seen[k], x)

\* the list left as it is, duplicates kept
KeepAll(items, kept) == kept \o items

RECURSIVE Dedup(_, _)
\* items = [x for x in items if not (x in seen or seen.add(x))], the items
\* kept so far being the members of seen
Dedup(items, kept) ==
    IF items = << >> THEN kept
    ELSE Eval(IF InSeen(Head(items), kept) THEN kept ELSE Append(kept, Head(items)),
              LAMBDA seen : Dedup(Tail(items), seen))

RECURSIVE AllItems(_, _)
\* the items of lines[k..], in order
AllItems(lines, k) ==
    IF k > Len(lines) THEN << >> ELSE LineItems(lines[k]) \o AllItems(lines, k + 1)

\* ActParser.parse_act(text): an ActData or the error raised
parse_act(s) ==
    Eval(clean_text(s), LAMBDA cleaned_text :
    Eval(NonBlankLines(cleaned_text), LAMBDA lines :
         IF lines = << >> THEN ValueError(EmptyActMessage)
         ELSE
    Eval(ReMatch(HEADER_PATTERN, lines[1]), LAMBDA header_match :
         IF ~header_match.ok THEN ValueError(HeaderMessage)
         ELSE
    Eval(GroupText(lines[1], header_match, "date"), LAMBDA date_str :
    Eval(clean_text(Strip(GroupText(lines[1], header_match, "object_name"), Whitespace)),
         LAMBDA object_name :
    Eval(Strptime(date_str), LAMBDA act_date :
         IF ~act_date.ok THEN ValueError(DateMessage(date_str))
         ELSE
    Eval(Dedup(AllItems(lines, 2), << >>), LAMBDA items :
         IF items = << >> THEN ValueError(NoItemsMessage)
         ELSE [kind |-> "act",
               date |-> [year |-> act_date.year, month |-> act_date.month,
                         day |-> act_date.day],
               object_name |-> object_name,
               items |-> items])))))))

\* ActData.total, in hundredths
RECURSIVE SumTotals(_)
SumTotals(items) ==
    IF items = << >> THEN 0 ELSE ItemTotal(Head(items)) + SumTotals(Tail(items))

ActTotal(a) == SumTotals(a.items)

-----------------------------------------------------------------------------
(* app/preview.py *)

RECURSIVE DigitsOf(_)
\* str(n) for n >= 0
DigitsOf(n) == IF n < 10 THEN << 48 + n >> ELSE Append(DigitsOf(n \div 10), 48 + (n % 10))

RECURSIVE Grouped(_)
\* the digits ds in groups of three separated by spaces:
\* "{0:,}".format(n).replace(",", " ")
Grouped(ds) ==
    IF Len(ds) <= 3 THEN ds
    ELSE Grouped(SubSeq(ds, 1, Len(ds) - 3)) \o <<32>> \o SubSeq(ds, Len(ds) - 2, Len(ds))

\* _format_number(value) for a value in thousandths
_format_number(value) ==
    Eval(Round2(value), LAMBDA h :
    Eval(Grouped(DigitsOf(h \div 100))
         \o <<46, 48 + ((h % 100) \div 10), 48 + ((h % 100) % 10)>>, LAMBDA formatted :
    Eval(LET keep == {i \in 1..Len(formatted) : formatted[i] # 48}
         IN SubSeq(formatted, 1, CHOOSE i \in keep : \A j \in keep : i >= j),
         LAMBDA no_zeros :
             IF no_zeros[Len(no_zeros)] = 46
             THEN SubSeq(no_zeros, 1, Len(no_zeros) - 1) ELSE no_zeros)))

\* n as at least two digits: %d and %m of strftime
TwoDigits(n) == IF n < 10 THEN <<48>> \o DigitsOf(n) ELSE DigitsOf(n)

\* act_data.date.strftime('%d.%m.%Y'); glibc's %Y does not pad the year
Strftime(date) ==
    TwoDigits(date.day) \o <<46>> \o TwoDigits(date.month) \o <<46>> \o DigitsOf(date.year)

\* f"{item.name} {_format_number(item.quantity)} {item.unit} × {_format_number(item.price)}₽"
ItemLine(x) ==
    x.name \o <<32>> \o _format_number(x.quantity) \o <<32>> \o x.unit
    \o <<32, 215, 32>> \o _format_number(x.price) \o <<8381>>

\* format_act_as_text(act_data)
format_act_as_text(a) ==
    Join(<< <<35, 1040, 1050, 1058, 32>> \o Strftime(a.date)
            \o <<32, 124, 32, 1054, 1073, 1098, 1077, 1082, 1090, 58, 32>> \o a.object_name >>
         \o [k \in 1..Len(a.items) |-> ItemLine(a.items[k])],
         <<10>>)

-----------------------------------------------------------------------------
(* The messages the parser is run on.  An input is kept as the pieces it   *)
(* was written from, so that what the parser returns can be compared with  *)
(* what was written.                                                       *)

\* the most item lines of a message
MaxLines == 3

\* the item lines of the messages.  A canonical line is written from its
\* fields as '<name> <qty> <unit> × <price>'; the other lines are their text.
\* A written field is its characters s and the value v that parse_act stores
\* for it (numbers in thousandths); recognized tells whether _parse_item makes
\* an item of the line taken alone
ItemLines == <<
    \* 'Услуги по уборке 1 кв.м. × 1500'
    [form |-> "canonical", canonical |-> TRUE, recognized |-> TRUE,
     name |-> [s |-> <<1059, 1089, 1083, 1091, 1075, 1080, 32, 1087, 1086, 32, 1091, 1073, 1086, 1088, 1082, 1077>>,
              v |-> <<1059, 1089, 1083, 1091, 1075, 1080, 32, 1087, 1086, 32, 1091, 1073, 1086, 1088, 1082, 1077>>],
     qty |-> [s |-> <<49>>, v |-> 1000],
     unit |-> [s |-> <<1082, 1074, 46, 1084, 46>>, v |-> <<1082, 1074, 46, 1084, 46>>],
     price |-> [s |-> <<49, 53, 48, 48>>, v |-> 1500000],
     text |-> << >>],
    \* 'Мытье окон 3 шт. × 500'
    [form |-> "canonical", canonical |-> TRUE, recognized |-> TRUE,
     name |-> [s |-> <<1052, 1099, 1090, 1100, 1077, 32, 1086, 1082, 1086, 1085>>,
              v |-> <<1052, 1099, 1090, 1100, 1077, 32, 1086, 1082, 1086, 1085>>],
     qty |-> [s |-> <<51>>, v |-> 3000],
     unit |-> [s |-> <<1096, 1090, 46>>, v |-> <<1096, 1090, 46>>],
     price |-> [s |-> <<53, 48, 48>>, v |-> 500000],
     text |-> << >>],
    \* 'Мытье окон 5 шт. × 500'
    [form |-> "canonical", canonical |-> TRUE, recognized |-> TRUE,
     name |-> [s |-> <<1052, 1099, 1090, 1100, 1077, 32, 1086, 1082, 1086, 1085>>,
              v |-> <<1052, 1099, 1090, 1100, 1077, 32, 1086, 1082, 1086, 1085>>],
     qty |-> [s |-> <<53>>, v |-> 5000],
     unit |-> [s |-> <<1096, 1090, 46>>, v |-> <<1096, 1090, 46>>],
     price |-> [s |-> <<53, 48, 48>>, v |-> 500000],
     text |-> << >>],
    \* 'мытье окон 2 ШТ. × 500.004'
    [form |-> "canonical", canonical |-> TRUE, recognized |-> TRUE,
     name |-> [s |-> <<1084, 1099, 1090, 1100, 1077, 32, 1086, 1082, 1086, 1085>>,
              v |-> <<1084, 1099, 1090, 1100, 1077, 32, 1086, 1082, 1086, 1085>>],
     qty |-> [s |-> <<50>>, v |-> 2000],
     unit |-> [s |-> <<1064, 1058, 46>>, v |-> <<1096, 1090, 46>>],
     price |-> [s |-> <<53, 48, 48, 46, 48, 48, 52>>, v |-> 500004],
     text |-> << >>],
    \* 'Мытье окон 1 шт. × 500.006'
    [form |-> "canonical", canonical |-> TRUE, recognized |-> TRUE,
     name |-> [s |-> <<1052, 1099, 1090, 1100, 1077, 32, 1086, 1082, 1086, 1085>>,
              v |-> <<1052, 1099, 1090, 1100, 1077, 32, 1086, 1082, 1086, 1085>>],
     qty |-> [s |-> <<49>>, v |-> 1000],
     unit |-> [s |-> <<1096, 1090, 46>>, v |-> <<1096, 1090, 46>>],
     price |-> [s |-> <<53, 48, 48, 46, 48, 48, 54>>, v |-> 500006],
     text |-> << >>],
    \* 'кальян 1000 м × 2,5'
    [form |-> "canonical", canonical |-> TRUE, recognized |-> TRUE,
     name |-> [s |-> <<1082, 1072, 1083, 1100, 1103, 1085>>,
              v |-> <<1086, 1073, 1086, 1088, 1091, 1076, 1086, 1074, 1072, 1085, 1080, 1077>>],
     qty |-> [s |-> <<49, 48, 48, 48>>, v |-> 1000000],
     unit |-> [s |-> <<1084>>, v |-> <<1084>>],
     price |-> [s |-> <<50, 44, 53>>, v |-> 2500],
     text |-> << >>],
    \* 'Работа 0 шт. × 5'
    [form |-> "canonical", canonical |-> TRUE, recognized |-> FALSE,
     name |-> [s |-> <<1056, 1072, 1073, 1086, 1090, 1072>>,
              v |-> <<1056, 1072, 1073, 1086, 1090, 1072>>],
     qty |-> [s |-> <<48>>, v |-> 0],
     unit |-> [s |-> <<1096, 1090, 46>>, v |-> <<1096, 1090, 46>>],
     price |-> [s |-> <<53>>, v |-> 5000],
     text |-> << >>],
    \* 'Просто текст без цифр'
    [form |-> "text", canonical |-> FALSE, recognized |-> FALSE,
     name |-> [s |-> << >>,
              v |-> << >>],
     qty |-> [s |-> << >>, v |-> 0],
     unit |-> [s |-> << >>, v |-> << >>],
     price |-> [s |-> << >>, v |-> 0],
     text |-> <<1055, 1088, 1086, 1089, 1090, 1086, 32, 1090, 1077, 1082, 1089, 1090, 32, 1073, 1077, 1079, 32, 1094, 1080, 1092, 1088>>],
    \* '3 , по 100'
    [form |-> "text", canonical |-> FALSE, recognized |-> TRUE,
     name |-> [s |-> << >>,
              v |-> << >>],
     qty |-> [s |-> << >>, v |-> 3000],
     unit |-> [s |-> << >>, v |-> <<1096, 1090, 46>>],
     price |-> [s |-> << >>, v |-> 100000],
     text |-> <<51, 32, 44, 32, 1087, 1086, 32, 49, 48, 48>>],
    \* '# комментарий'
    [form |-> "text", canonical |-> FALSE, recognized |-> FALSE,
     name |-> [s |-> << >>,
              v |-> << >>],
     qty |-> [s |-> << >>, v |-> 0],
     unit |-> [s |-> << >>, v |-> << >>],
     price |-> [s |-> << >>, v |-> 0],
     text |-> <<35, 32, 1082, 1086, 1084, 1084, 1077, 1085, 1090, 1072, 1088, 1080, 1081>>]
>>

\* the text of an item line
LineText(l) ==
    IF l.canonical
    THEN l.name.s \o <<32>> \o l.qty.s \o <<32>>
         \o (IF l.unit.s = << >> THEN << >> ELSE l.unit.s \o <<32>>)
         \o <<IF l.form = "times" THEN l.sep ELSE 215, 32>> \o l.price.s
    ELSE l.text

\* the lines that are not comments, and the comment line
ItemChoice == 1..(Len(ItemLines) - 1)
CommentLine == Len(ItemLines)

\* the day, month and year tokens of the header dates, with their values:
\* '1', '01', '12', '29', '31', '0', '32';
\* '2', '02', '05', '12', '13', '0';
\* '2024', '2023', '1900', '24', '202', '0000'
Days ==
    { [s |-> <<49>>, v |-> 1],
      [s |-> <<48, 49>>, v |-> 1],
      [s |-> <<49, 50>>, v |-> 12],
      [s |-> <<50, 57>>, v |-> 29],
      [s |-> <<51, 49>>, v |-> 31],
      [s |-> <<48>>, v |-> 0],
      [s |-> <<51, 50>>, v |-> 32] }
Months ==
    { [s |-> <<50>>, v |-> 2],
      [s |-> <<48, 50>>, v |-> 2],
      [s |-> <<48, 53>>, v |-> 5],
      [s |-> <<49, 50>>, v |-> 12],
      [s |-> <<49, 51>>, v |-> 13],
      [s |-> <<48>>, v |-> 0] }
Years ==
    { [s |-> <<50, 48, 50, 52>>, v |-> 2024],
      [s |-> <<50, 48, 50, 51>>, v |-> 2023],
      [s |-> <<49, 57, 48, 48>>, v |-> 1900],
      [s |-> <<50, 52>>, v |-> 24],
      [s |-> <<50, 48, 50>>, v |-> 202],
      [s |-> <<48, 48, 48, 48>>, v |-> 0] }
\* '.' and '/'
DateSeps == {46, 47}

\* what is written before the date: '#АКТ ', '#акт   ', 'АКТ ', '#АКТ'
Markers ==
    { <<35, 1040, 1050, 1058, 32>>,
      <<35, 1072, 1082, 1090, 32, 32, 32>>,
      <<1040, 1050, 1058, 32>>,
      <<35, 1040, 1050, 1058>> }
\* what is written between the date and the object name: ' | Объект: ', '|объект:', ' - Объект: '
Labels ==
    { <<32, 124, 32, 1054, 1073, 1098, 1077, 1082, 1090, 58, 32>>,
      <<124, 1086, 1073, 1098, 1077, 1082, 1090, 58>>,
      <<32, 45, 32, 1054, 1073, 1098, 1077, 1082, 1090, 58, 32>> }
\* the object names, as written and as parse_act stores them: 'X',
\* 'Офис на Невском проспекте', '  Склад 7  ' -> 'Склад 7',
\* 'Кальянная' -> 'оборудованиеная',
\* 'Дом шлюх' -> 'Дом ассистенти. (названия скорректированы)'
ObjectNames ==
    { [s |-> <<88>>,
       v |-> <<88>>],
      [s |-> <<1054, 1092, 1080, 1089, 32, 1085, 1072, 32, 1053, 1077, 1074, 1089, 1082, 1086, 1084, 32, 1087, 1088, 1086, 1089, 1087, 1077, 1082, 1090, 1077>>,
       v |-> <<1054, 1092, 1080, 1089, 32, 1085, 1072, 32, 1053, 1077, 1074, 1089, 1082, 1086, 1084, 32, 1087, 1088, 1086, 1089, 1087, 1077, 1082, 1090, 1077>>],
      [s |-> <<32, 32, 1057, 1082, 1083, 1072, 1076, 32, 55, 32, 32>>,
       v |-> <<1057, 1082, 1083, 1072, 1076, 32, 55>>],
      [s |-> <<1050, 1072, 1083, 1100, 1103, 1085, 1085, 1072, 1103>>,
       v |-> <<1086, 1073, 1086, 1088, 1091, 1076, 1086, 1074, 1072, 1085, 1080, 1077, 1085, 1072, 1103>>],
      [s |-> <<1044, 1086, 1084, 32, 1096, 1083, 1102, 1093>>,
       v |-> <<1044, 1086, 1084, 32, 1072, 1089, 1089, 1080, 1089, 1090, 1077, 1085, 1090, 1080, 46, 32, 40, 1085, 1072, 1079, 1074, 1072, 1085, 1080, 1103, 32, 1089, 1082, 1086, 1088, 1088, 1077, 1082, 1090, 1080, 1088, 1086, 1074, 1072, 1085, 1099, 41>>] }
\* the texts without a non-blank line: '', '\n', '  \n \n'
BlankTexts ==
    { <<>>,
      <<10>>,
      <<32, 32, 10, 32, 10>> }
\* 'Офис на Невском проспекте'
SampleObject ==
    [s |-> <<1054, 1092, 1080, 1089, 32, 1085, 1072, 32, 1053, 1077, 1074, 1089, 1082, 1086, 1084, 32, 1087, 1088, 1086, 1089, 1087, 1077, 1082, 1090, 1077>>,
     v |-> <<1054, 1092, 1080, 1089, 32, 1085, 1072, 32, 1053, 1077, 1074, 1089, 1082, 1086, 1084, 32, 1087, 1088, 1086, 1089, 1087, 1077, 1082, 1090, 1077>>]
\* '#АКТ ' and ' | Объект: '
SampleMarker == <<35, 1040, 1050, 1058, 32>>
SampleLabel == <<32, 124, 32, 1054, 1073, 1098, 1077, 1082, 1090, 58, 32>>

\* the header date 12.05.2024 of the sample act
SampleDay   == [s |-> <<49, 50>>, v |-> 12]
SampleMonth == [s |-> <<48, 53>>, v |-> 5]
SampleYear  == [s |-> <<50, 48, 50, 52>>, v |-> 2024]

\* a message: lead, header line, item lines (indices of ItemLines), trail
Message(marker, d, m, y, sep, label, obj, lines, lead, trail) ==
    [blank |-> FALSE, raw |-> << >>, marker |-> marker, d |-> d, m |-> m, y |-> y,
     sep |-> sep, label |-> label, obj |-> obj, lines |-> lines,
     lead |-> lead, trail |-> trail]

\* the sample header with the given item lines
SampleMessage(lines, lead, trail) ==
    Message(SampleMarker, SampleDay, SampleMonth, SampleYear, 46, SampleLabel,
            SampleObject, lines, lead, trail)

\* headers with every date, followed by one item line
DateInputs ==
    {Message(SampleMarker, d, m, y, sep, SampleLabel, [s |-> <<88>>, v |-> <<88>>], <<2>>, << >>, << >>) :
        d \in Days, m \in Months, y \in Years, sep \in DateSeps}

\* headers with every marker, label and object name, followed by an item
\* line, or by an item line and a line of plain text
HeaderInputs ==
    {Message(marker, SampleDay, SampleMonth, SampleYear, 46, label, obj, lines, << >>, << >>) :
        marker \in Markers, label \in Labels, obj \in ObjectNames, lines \in {<<2>>, <<2, 8>>}}

\* the sample header followed by every sequence of at most MaxLines different
\* item lines
LineInputs ==
    {SampleMessage(lines, << >>, << >>) :
        lines \in UNION {{f \in [1..n -> ItemChoice] : \A i, j \in 1..n : f[i] = f[j] => i = j} :
                         n \in 0..MaxLines}}

\* the sample act between blank lines, with and without a comment line
PaddedInputs ==
    {SampleMessage(lines, lead, trail) :
        lines \in {<<1, 2>>, <<1, CommentLine, 2>>},
        lead \in {<< >>, <<10, 32, 10>>}, trail \in {<<10>>, <<32, 10, 10>>}}

\* texts without a non-blank line
BlankInputs ==
    {[Message(<< >>, SampleDay, SampleMonth, SampleYear, 46, << >>, SampleObject, << >>, << >>, << >>)
        EXCEPT !.blank = TRUE, !.raw = t] : t \in BlankTexts}

Inputs == DateInputs \cup HeaderInputs \cup LineInputs \cup PaddedInputs \cup BlankInputs

\* the date token and the header line of a message
DateToken(in)  == in.d.s \o <<in.sep>> \o in.m.s \o <<in.sep>> \o in.y.s
HeaderLine(in) == in.marker \o DateToken(in) \o in.label \o in.obj.s

RECURSIVE LinesText(_, _)
LinesText(lines, k) ==
    IF k > Len(lines) THEN << >>
    ELSE <<10>> \o LineText(ItemLines[lines[k]]) \o LinesText(lines, k + 1)

\* the text of a message
Text(in) ==
    IF in.blank THEN in.raw
    ELSE in.lead \o HeaderLine(in) \o LinesText(in.lines, 1) \o in.trail

\* nothing computed yet
Nothing == [kind |-> "nothing"]

\* the users that write to the bot
Users == {1, 2}

\* no document has been generated
NoDocument ==
    /\ template = None
    /\ doc = Nothing

\* UserContext()
UserContext == [current_act |-> None, last_message_id |-> None, state |-> "idle"]

\* the bot has started and no message has arrived: MemoryStorage() and
\* user_contexts are empty (a user without an entry has no state, and
\* get_user_context makes the entry UserContext() on first use)
NoSession ==
    /\ fsm = [u \in Users |-> None]
    /\ user_contexts = [u \in Users |-> UserContext]
    /\ tasks = {}
    /\ sent = << >>
    /\ parses = << >>
    /\ files = << >>
    /\ now = 0

Init ==
    /\ input \in Inputs
    /\ text = Text(input)
    /\ pc = "start"
    /\ act = Nothing
    /\ canon = << >>
    /\ act2 = Nothing
    /\ line = << >>
    /\ item = Nothing
    /\ sanitized = << >>
    /\ sanitized2 = << >>
    /\ NoDocument
    /\ NoSession

\* act_data = ActParser.parse_act(text)
ParseAct ==
    /\ pc = "start"
    /\ act' = parse_act(text)
    /\ pc' = "parsed"
    /\ UNCHANGED <<input, text, canon, act2, line, item, sanitized, sanitized2, docVars, botVars>>

\* format_act_as_text(act_data)
FormatActAsText ==
    /\ pc = "parsed"
    /\ act.kind = "act"
    /\ canon' = format_act_as_text(act)
    /\ pc' = "rendered"
    /\ UNCHANGED <<input, text, act, act2, line, item, sanitized, sanitized2, docVars, botVars>>

\* ActParser.parse_act of the canonical text
ParseCanonical ==
    /\ pc = "rendered"
    /\ act2' = parse_act(canon)
    /\ pc' = "done"
    /\ UNCHANGED <<input, text, act, canon, line, item, sanitized, sanitized2, docVars, botVars>>

Next == ParseAct \/ FormatActAsText \/ ParseCanonical

Spec == Init /\ [][Next]_vars

-----------------------------------------------------------------------------
(* _parse_item on single lines.  Here input is the line as the fields it  *)
(* was written from, in the form of the members of ItemLines.             *)

\* the names, quantities, units and prices of the canonical lines: 'Мытье окон', 'Услуги по уборке', 'X', 'кальян', 'Склад 7', 'Труба 5 x 10 р';
\* '1', '3', '0.5', '2,5', '1000', '0';
\* no unit, 'шт.' -> 'шт.', 'шт' -> 'шт.', 'ШТ' -> 'шт.', 'кв.м.' -> 'кв.м.', 'метр' -> 'м', 'Компл' -> 'компл.', 'час' -> 'час', 'м2' -> 'м2' (written -> lower case, normalised);
\* '500', '1500', '2,5', '100.50', '0'
LineNames ==
    { <<1052, 1099, 1090, 1100, 1077, 32, 1086, 1082, 1086, 1085>>,
      <<1059, 1089, 1083, 1091, 1075, 1080, 32, 1087, 1086, 32, 1091, 1073, 1086, 1088, 1082, 1077>>,
      <<88>>,
      <<1082, 1072, 1083, 1100, 1103, 1085>>,
      <<1057, 1082, 1083, 1072, 1076, 32, 55>>,
      <<1058, 1088, 1091, 1073, 1072, 32, 53, 32, 120, 32, 49, 48, 32, 1088>> }
LineQuantities ==
    { [s |-> <<49>>, v |-> 1000],
      [s |-> <<51>>, v |-> 3000],
      [s |-> <<48, 46, 53>>, v |-> 500],
      [s |-> <<50, 44, 53>>, v |-> 2500],
      [s |-> <<49, 48, 48, 48>>, v |-> 1000000],
      [s |-> <<48>>, v |-> 0] }
LineUnits ==
    { [s |-> << >>, v |-> <<1096, 1090, 46>>],
      [s |-> <<1096, 1090, 46>>, v |-> <<1096, 1090, 46>>],
      [s |-> <<1096, 1090>>, v |-> <<1096, 1090, 46>>],
      [s |-> <<1064, 1058>>, v |-> <<1096, 1090, 46>>],
      [s |-> <<1082, 1074, 46, 1084, 46>>, v |-> <<1082, 1074, 46, 1084, 46>>],
      [s |-> <<1084, 1077, 1090, 1088>>, v |-> <<1084>>],
      [s |-> <<1050, 1086, 1084, 1087, 1083>>, v |-> <<1082, 1086, 1084, 1087, 1083, 46>>],
      [s |-> <<1095, 1072, 1089>>, v |-> <<1095, 1072, 1089>>],
      [s |-> <<1084, 50>>, v |-> <<1084, 50>>] }
LinePrices ==
    { [s |-> <<53, 48, 48>>, v |-> 500000],
      [s |-> <<49, 53, 48, 48>>, v |-> 1500000],
      [s |-> <<50, 44, 53>>, v |-> 2500],
      [s |-> <<49, 48, 48, 46, 53, 48>>, v |-> 100500],
      [s |-> <<48>>, v |-> 0] }

CanonicalLines ==
    {[form |-> "canonical", canonical |-> TRUE, recognized |-> TRUE, name |-> [s |-> n, v |-> n],
      qty |-> q, unit |-> u, price |-> p, text |-> << >>] :
        n \in LineNames, q \in LineQuantities, u \in LineUnits, p \in LinePrices}

\* lines in other forms: 'Просто текст без цифр',
\* '3 , по 100',
\* '# комментарий',
\* '3 камеры по 2000₽',
\* 'стойка, 18 модулей по 1000₽',
\* '4 шлюхи по 10ке за ночь, три ночи в целом',
\* 'Услуга 3 x 1000',
\* ''
OtherTexts ==
    { <<1055, 1088, 1086, 1089, 1090, 1086, 32, 1090, 1077, 1082, 1089, 1090, 32, 1073, 1077, 1079, 32, 1094, 1080, 1092, 1088>>,
      <<51, 32, 44, 32, 1087, 1086, 32, 49, 48, 48>>,
      <<35, 32, 1082, 1086, 1084, 1084, 1077, 1085, 1090, 1072, 1088, 1080, 1081>>,
      <<51, 32, 1082, 1072, 1084, 1077, 1088, 1099, 32, 1087, 1086, 32, 50, 48, 48, 48, 8381>>,
      <<1089, 1090, 1086, 1081, 1082, 1072, 44, 32, 49, 56, 32, 1084, 1086, 1076, 1091, 1083, 1077, 1081, 32, 1087, 1086, 32, 49, 48, 48, 48, 8381>>,
      <<52, 32, 1096, 1083, 1102, 1093, 1080, 32, 1087, 1086, 32, 49, 48, 1082, 1077, 32, 1079, 1072, 32, 1085, 1086, 1095, 1100, 44, 32, 1090, 1088, 1080, 32, 1085, 1086, 1095, 1080, 32, 1074, 32, 1094, 1077, 1083, 1086, 1084>>,
      <<1059, 1089, 1083, 1091, 1075, 1072, 32, 51, 32, 120, 32, 49, 48, 48, 48>>,
      << >> }

OtherLines ==
    {[form |-> "text", canonical |-> FALSE, recognized |-> FALSE, name |-> [s |-> << >>, v |-> << >>],
      qty |-> [s |-> << >>, v |-> 0], unit |-> [s |-> << >>, v |-> << >>],
      price |-> [s |-> << >>, v |-> 0], text |-> x] : x \in OtherTexts}

\* canonical lines whose quantity carries a multiplier, as in
\* 'Item 3 x 100 × 50': the names 'Item', 'Услуга'; the numbers before the
\* joiner '3', '2,5', '0'; the joiners ' x ', ' х ' (Cyrillic), 'x', 'х'; the
\* multipliers '100', '4', '0'; the price separators '×' and 'x'
TimesNames == { <<73, 116, 101, 109>>, <<1059, 1089, 1083, 1091, 1075, 1072>> }
TimesFirst == { [s |-> <<51>>, v |-> 3000], [s |-> <<50, 44, 53>>, v |-> 2500], [s |-> <<48>>, v |-> 0] }
TimesJoiners == { <<32, 120, 32>>, <<32, 1093, 32>>, <<120>>, <<1093>> }
TimesMultipliers == { [s |-> <<49, 48, 48>>, v |-> 100000], [s |-> <<52>>, v |-> 4000], [s |-> <<48>>, v |-> 0] }
TimesUnits ==
    { [s |-> << >>, v |-> <<1096, 1090, 46>>],
      [s |-> <<1096, 1090>>, v |-> <<1096, 1090, 46>>],
      [s |-> <<1082, 1074, 46, 1084, 46>>, v |-> <<1082, 1074, 46, 1084, 46>>] }
TimesSeparators == {215, 120}
TimesPrices == { [s |-> <<53, 48>>, v |-> 50000], [s |-> <<50, 44, 53>>, v |-> 2500], [s |-> <<48>>, v |-> 0] }

TimesLines ==
    {[form |-> "times", canonical |-> TRUE, recognized |-> TRUE,
      name |-> [s |-> n, v |-> n],
      qty |-> [s |-> a.s \o j \o b.s, v |-> (a.v * b.v) \div 1000],
      unit |-> u, price |-> p, text |-> << >>,
      first |-> a, joiner |-> j, multiplier |-> b, sep |-> sep] :
        n \in TimesNames, a \in TimesFirst, j \in TimesJoiners, b \in TimesMultipliers,
        u \in TimesUnits, sep \in TimesSeparators, p \in TimesPrices}

\* lines '<N> <name> по <price>' with an optional currency sign, as in
\* '3 камеры по 2000₽': the counts '3', '7', '10', '0'; the names 'камеры',
\* 'камер', 'поста', 'камеры Full HD', 'камеры,' and ', камеры ,' (both
\* 'камеры' once trimmed); ' по ', ' по', ' ПО '; the prices '2000', '100',
\* '5', '0'; no sign, '₽', 'р'
CountByCounts == { [s |-> <<51>>, v |-> 3000], [s |-> <<55>>, v |-> 7000], [s |-> <<49, 48>>, v |-> 10000], [s |-> <<48>>, v |-> 0] }
CountByNames ==
    { [s |-> <<1082, 1072, 1084, 1077, 1088, 1099>>, v |-> <<1082, 1072, 1084, 1077, 1088, 1099>>],
      [s |-> <<1082, 1072, 1084, 1077, 1088>>, v |-> <<1082, 1072, 1084, 1077, 1088>>],
      [s |-> <<1087, 1086, 1089, 1090, 1072>>, v |-> <<1087, 1086, 1089, 1090, 1072>>],
      [s |-> <<1082, 1072, 1084, 1077, 1088, 1099, 32, 70, 117, 108, 108, 32, 72, 68>>, v |-> <<1082, 1072, 1084, 1077, 1088, 1099, 32, 70, 117, 108, 108, 32, 72, 68>>],
      [s |-> <<1082, 1072, 1084, 1077, 1088, 1099, 44>>, v |-> <<1082, 1072, 1084, 1077, 1088, 1099>>],
      [s |-> <<44, 32, 1082, 1072, 1084, 1077, 1088, 1099, 32, 44>>, v |-> <<1082, 1072, 1084, 1077, 1088, 1099>>] }
CountByWords == { <<32, 1087, 1086, 32>>, <<32, 1087, 1086>>, <<32, 1055, 1054, 32>> }
CountByPrices == { [s |-> <<50, 48, 48, 48>>, v |-> 2000000], [s |-> <<49, 48, 48>>, v |-> 100000], [s |-> <<53>>, v |-> 5000], [s |-> <<48>>, v |-> 0] }
Currencies == { << >>, <<8381>>, <<1088>> }

CountByLines ==
    {[form |-> "count", canonical |-> FALSE, recognized |-> TRUE,
      name |-> n, qty |-> q, unit |-> [s |-> << >>, v |-> <<1096, 1090, 46>>], price |-> p,
      text |-> q.s \o <<32>> \o n.s \o by \o p.s \o cur] :
        q \in CountByCounts, n \in CountByNames, by \in CountByWords,
        p \in CountByPrices, cur \in Currencies}

\* lines '<N> <name> по <price><tail>' whose tail states a number of nights,
\* as in '2 охранника по 1000 за ночь, 3 ночи': the counts '2', '4'; the
\* names 'охранника', 'девушки'; the prices '1000', '10'; the tails
\* ' за ночь, 3 ночи', ', 2 ночи', '₽ за ночь, 3 ночей'
NightsCounts == { [s |-> <<50>>, v |-> 2000], [s |-> <<52>>, v |-> 4000] }
NightsNames == { <<1086, 1093, 1088, 1072, 1085, 1085, 1080, 1082, 1072>>, <<1076, 1077, 1074, 1091, 1096, 1082, 1080>> }
NightsPrices == { [s |-> <<49, 48, 48, 48>>, v |-> 1000000], [s |-> <<49, 48>>, v |-> 10000] }
NightsTails ==
    { [s |-> <<32, 1079, 1072, 32, 1085, 1086, 1095, 1100, 44, 32, 51, 32, 1085, 1086, 1095, 1080>>, nights |-> 3],
      [s |-> <<44, 32, 50, 32, 1085, 1086, 1095, 1080>>, nights |-> 2],
      [s |-> <<8381, 32, 1079, 1072, 32, 1085, 1086, 1095, 1100, 44, 32, 51, 32, 1085, 1086, 1095, 1077, 1081>>, nights |-> 3] }

NightsLines ==
    {[form |-> "nights", canonical |-> FALSE, recognized |-> TRUE,
      name |-> [s |-> n, v |-> n], qty |-> q,
      unit |-> [s |-> << >>, v |-> <<1096, 1090, 46>>], price |-> p, nights |-> tail.nights,
      text |-> q.s \o <<32>> \o n \o <<32, 1087, 1086, 32>> \o p.s \o tail.s] :
        q \in NightsCounts, n \in NightsNames, p \in NightsPrices, tail \in NightsTails}

\* lines '<name>, <N> <module word> по <price>' with an optional currency
\* sign, as in 'стойка, 18 модулей по 1000₽': the names 'стойка',
\* 'стойка слабаточная'; the counts '18', '2'; the module words 'модулей',
\* 'модуля', 'модуль', 'модул', 'мод.'; the price '1000'
ModuleNames == { <<1089, 1090, 1086, 1081, 1082, 1072>>, <<1089, 1090, 1086, 1081, 1082, 1072, 32, 1089, 1083, 1072, 1073, 1072, 1090, 1086, 1095, 1085, 1072, 1103>> }
ModuleCounts == { [s |-> <<49, 56>>, v |-> 18000], [s |-> <<50>>, v |-> 2000] }
ModuleWords == { <<1084, 1086, 1076, 1091, 1083, 1077, 1081>>, <<1084, 1086, 1076, 1091, 1083, 1103>>, <<1084, 1086, 1076, 1091, 1083, 1100>>, <<1084, 1086, 1076, 1091, 1083>>, <<1084, 1086, 1076, 46>> }
ModulePrices == { [s |-> <<49, 48, 48, 48>>, v |-> 1000000] }

ModuleLines ==
    {[form |-> "module", canonical |-> FALSE, recognized |-> FALSE,
      name |-> [s |-> n, v |-> n], qty |-> q,
      unit |-> [s |-> w, v |-> <<1084, 1086, 1076, 46>>], price |-> p,
      text |-> n \o <<44, 32>> \o q.s \o <<32>> \o w \o <<32, 1087, 1086, 32>> \o p.s \o cur] :
        n \in ModuleNames, q \in ModuleCounts, w \in ModuleWords,
        p \in ModulePrices, cur \in Currencies}

\* lines that match ITEM_PATTERN with a number that fails conversion or
\* validation (a zero price, a zero quantity, a quantity '2 X 4'), each with
\* what the patterns after ITEM_PATTERN give for it
CascadeTexts ==
    {
      \* '2 A: 5 × 0'
      [text |-> <<50, 32, 65, 58, 32, 53, 32, 215, 32, 48>>,
       later |-> [kind |-> "item", name |-> <<65>>, quantity |-> 2000, unit |-> <<1096, 1090, 46>>, price |-> 5000]],
      \* '3 камеры по 5 × 0'
      [text |-> <<51, 32, 1082, 1072, 1084, 1077, 1088, 1099, 32, 1087, 1086, 32, 53, 32, 215, 32, 48>>,
       later |-> [kind |-> "item", name |-> <<1082, 1072, 1084, 1077, 1088, 1099>>, quantity |-> 3000, unit |-> <<1096, 1090, 46>>, price |-> 5000]],
      \* '3 камеры: 2 X 4 × 5'
      [text |-> <<51, 32, 1082, 1072, 1084, 1077, 1088, 1099, 58, 32, 50, 32, 88, 32, 52, 32, 215, 32, 53>>,
       later |-> [kind |-> "item", name |-> <<1082, 1072, 1084, 1077, 1088, 1099>>, quantity |-> 3000, unit |-> <<1096, 1090, 46>>, price |-> 2000]],
      \* 'стойка, 18 шт. 5 x 0'
      [text |-> <<1089, 1090, 1086, 1081, 1082, 1072, 44, 32, 49, 56, 32, 1096, 1090, 46, 32, 53, 32, 120, 32, 48>>,
       later |-> [kind |-> "item", name |-> <<1089, 1090, 1086, 1081, 1082, 1072>>, quantity |-> 18000, unit |-> <<1084, 1086, 1076, 46>>, price |-> 5000]],
      \* '3 камеры по 100 0 шт × 5'
      [text |-> <<51, 32, 1082, 1072, 1084, 1077, 1088, 1099, 32, 1087, 1086, 32, 49, 48, 48, 32, 48, 32, 1096, 1090, 32, 215, 32, 53>>,
       later |-> [kind |-> "item", name |-> <<1082, 1072, 1084, 1077, 1088, 1099>>, quantity |-> 3000, unit |-> <<1096, 1090, 46>>, price |-> 100000]],
      \* 'A 0 шт × 5'
      [text |-> <<65, 32, 48, 32, 1096, 1090, 32, 215, 32, 53>>,
       later |-> None],
      \* 'A 2 X 3 × 5'
      [text |-> <<65, 32, 50, 32, 88, 32, 51, 32, 215, 32, 53>>,
       later |-> None] }

CascadeLines ==
    {[form |-> "cascade", canonical |-> FALSE, recognized |-> FALSE,
      name |-> [s |-> << >>, v |-> << >>], qty |-> [s |-> << >>, v |-> 0],
      unit |-> [s |-> << >>, v |-> << >>], price |-> [s |-> << >>, v |-> 0],
      text |-> c.text, later |-> c.later] : c \in CascadeTexts}

\* lines '<name> <N> x <M>' with no unit and no other separator, as in
\* 'Услуга 3 x 1000': the names 'Услуга', 'Мытье окон'; N '3', '2,5', '0';
\* ' x ', 'x' (Latin) and ' х ' (Cyrillic); M '1000', '100', '0'
BareNames == { <<1059, 1089, 1083, 1091, 1075, 1072>>, <<1052, 1099, 1090, 1100, 1077, 32, 1086, 1082, 1086, 1085>> }
BareQuantities == { [s |-> <<51>>, v |-> 3000], [s |-> <<50, 44, 53>>, v |-> 2500], [s |-> <<48>>, v |-> 0] }
BareJoiners == { [s |-> <<32, 120, 32>>, latin |-> TRUE], [s |-> <<120>>, latin |-> TRUE],
                 [s |-> <<32, 1093, 32>>, latin |-> FALSE] }
BarePrices == { [s |-> <<49, 48, 48, 48>>, v |-> 1000000], [s |-> <<49, 48, 48>>, v |-> 100000], [s |-> <<48>>, v |-> 0] }

BareLines ==
    {[form |-> "bare", canonical |-> FALSE, recognized |-> j.latin,
      name |-> [s |-> n, v |-> n], qty |-> q,
      unit |-> [s |-> << >>, v |-> <<1096, 1090, 46>>], price |-> p, latin |-> j.latin,
      text |-> n \o <<32>> \o q.s \o j.s \o p.s \o cur] :
        n \in BareNames, q \in BareQuantities, j \in BareJoiners,
        p \in BarePrices, cur \in {<< >>, <<8381>>}}

\* the lines of every form
FormLines ==
    TimesLines \cup CountByLines \cup NightsLines \cup ModuleLines \cup CascadeLines
    \cup BareLines

InitItem ==
    /\ input \in CanonicalLines \cup OtherLines \cup FormLines
    /\ text = << >>
    /\ pc = "line"
    /\ act = Nothing
    /\ canon = << >>
    /\ act2 = Nothing
    /\ line = LineText(input)
    /\ item = Nothing
    /\ sanitized = << >>
    /\ sanitized2 = << >>
    /\ NoDocument
    /\ NoSession

\* item = ActParser._parse_item(line)
ParseItem ==
    /\ pc = "line"
    /\ item' = _parse_item(line)
    /\ pc' = "item"
    /\ UNCHANGED <<input, text, act, canon, act2, line, sanitized, sanitized2, docVars, botVars>>

NextItem == ParseItem

SpecItem == InitItem /\ [][NextItem]_vars

-----------------------------------------------------------------------------
(* clean_text on texts.  Here input is the text as the pieces it was       *)
(* written from: a beginning, one or two words and an ending.  Each word   *)
(* carries, beside the way it is written (s), the word with the phrases of *)
(* WORD_REPLACEMENTS that occur in it replaced by their own replacements   *)
(* (r), the neutral word the tests of the repository expect for it         *)
(* (neutral), whether a phrase of the table occurs in it (mapped) and      *)
(* whether it is a forbidden word in some inflected form (forbidden).      *)

CleanWords ==
    {
      \* 'шлюх' -> 'Девушки'
      [s |-> <<1096, 1083, 1102, 1093>>, r |-> <<1044, 1077, 1074, 1091, 1096, 1082, 1080>>,
       neutral |-> <<1044, 1077, 1074, 1091, 1096, 1082, 1080>>, mapped |-> TRUE, forbidden |-> TRUE],
      \* 'проституток' -> 'проституток'
      [s |-> <<1087, 1088, 1086, 1089, 1090, 1080, 1090, 1091, 1090, 1086, 1082>>, r |-> <<1087, 1088, 1086, 1089, 1090, 1080, 1090, 1091, 1090, 1086, 1082>>,
       neutral |-> <<1087, 1077, 1088, 1089, 1086, 1085, 1072, 1083>>, mapped |-> FALSE, forbidden |-> TRUE],
      \* 'кальян' -> 'оборудование'
      [s |-> <<1082, 1072, 1083, 1100, 1103, 1085>>, r |-> <<1086, 1073, 1086, 1088, 1091, 1076, 1086, 1074, 1072, 1085, 1080, 1077>>,
       neutral |-> <<1086, 1073, 1086, 1088, 1091, 1076, 1086, 1074, 1072, 1085, 1080, 1077>>, mapped |-> TRUE, forbidden |-> TRUE],
      \* 'Кальян' -> 'оборудование'
      [s |-> <<1050, 1072, 1083, 1100, 1103, 1085>>, r |-> <<1086, 1073, 1086, 1088, 1091, 1076, 1086, 1074, 1072, 1085, 1080, 1077>>,
       neutral |-> <<1086, 1073, 1086, 1088, 1091, 1076, 1086, 1074, 1072, 1085, 1080, 1077>>, mapped |-> TRUE, forbidden |-> TRUE],
      \* 'девушки' -> 'ассистенти'
      [s |-> <<1076, 1077, 1074, 1091, 1096, 1082, 1080>>, r |-> <<1072, 1089, 1089, 1080, 1089, 1090, 1077, 1085, 1090, 1080>>,
       neutral |-> <<1072, 1089, 1089, 1080, 1089, 1090, 1077, 1085, 1090, 1080>>, mapped |-> TRUE, forbidden |-> TRUE],
      \* 'выезд' -> 'визит'
      [s |-> <<1074, 1099, 1077, 1079, 1076>>, r |-> <<1074, 1080, 1079, 1080, 1090>>,
       neutral |-> <<1074, 1080, 1079, 1080, 1090>>, mapped |-> TRUE, forbidden |-> TRUE],
      \* 'Обычный текст без запрещенных слов', unchanged
      [s |-> <<1054, 1073, 1099, 1095, 1085, 1099, 1081, 32, 1090, 1077, 1082, 1089, 1090, 32, 1073, 1077, 1079, 32, 1079, 1072, 1087, 1088, 1077, 1097, 1077, 1085, 1085, 1099, 1093, 32, 1089, 1083, 1086, 1074>>,
       r |-> <<1054, 1073, 1099, 1095, 1085, 1099, 1081, 32, 1090, 1077, 1082, 1089, 1090, 32, 1073, 1077, 1079, 32, 1079, 1072, 1087, 1088, 1077, 1097, 1077, 1085, 1085, 1099, 1093, 32, 1089, 1083, 1086, 1074>>,
       neutral |-> <<1054, 1073, 1099, 1095, 1085, 1099, 1081, 32, 1090, 1077, 1082, 1089, 1090, 32, 1073, 1077, 1079, 32, 1079, 1072, 1087, 1088, 1077, 1097, 1077, 1085, 1085, 1099, 1093, 32, 1089, 1083, 1086, 1074>>,
       mapped |-> FALSE, forbidden |-> FALSE],
      \* 'окон' -> 'окон'
      [s |-> <<1086, 1082, 1086, 1085>>, r |-> <<1086, 1082, 1086, 1085>>,
       neutral |-> <<1086, 1082, 1086, 1085>>, mapped |-> FALSE, forbidden |-> FALSE] }

\* no word at all
NoWord == [s |-> << >>, r |-> << >>, neutral |-> << >>, mapped |-> FALSE, forbidden |-> FALSE]

\* 'Услуги ' and ''
CleanBeginnings == { <<1059, 1089, 1083, 1091, 1075, 1080, 32>>, << >> }
\* ' и ' and the newline
CleanJoints == { <<32, 1080, 32>>, <<10>> }
\* '', '.', the newline, ' ', '.' and a newline
CleanEndings == { << >>, <<46>>, <<10>>, <<32>>, <<46, 10>> }

CleanInputs ==
    {[pre |-> b, w1 |-> w1, joint |-> (IF w2 = NoWord THEN << >> ELSE j), w2 |-> w2, end |-> e] :
        b \in CleanBeginnings, w1 \in CleanWords \cup {NoWord}, j \in CleanJoints,
        w2 \in CleanWords \cup {NoWord}, e \in CleanEndings}

\* the text of an input
CleanTextOf(in) == in.pre \o in.w1.s \o in.joint \o in.w2.s \o in.end

InitClean ==
    /\ input \in CleanInputs
    /\ text = CleanTextOf(input)
    /\ pc = "text"
    /\ act = Nothing
    /\ canon = << >>
    /\ act2 = Nothing
    /\ line = << >>
    /\ item = Nothing
    /\ sanitized = << >>
    /\ sanitized2 = << >>
    /\ NoDocument
    /\ NoSession

\* cleaned_text = clean_text(text)
CleanText ==
    /\ pc = "text"
    /\ sanitized' = clean_text(text)
    /\ pc' = "cleaned"
    /\ UNCHANGED <<input, text, act, canon, act2, line, item, sanitized2, docVars, botVars>>

\* clean_text applied to text that clean_text returned, as parse_act does
\* with the object name it takes from the cleaned text
CleanAgain ==
    /\ pc = "cleaned"
    /\ sanitized2' = clean_text(sanitized)
    /\ pc' = "cleaned twice"
    /\ UNCHANGED <<input, text, act, canon, act2, line, item, sanitized, docVars, botVars>>

NextClean == CleanText \/ CleanAgain

SpecClean == InitClean /\ [][NextClean]_vars

-----------------------------------------------------------------------------
(* app/docgen.py and app/template_utils.py.  A document is its body        *)
(* paragraphs and its tables.  A paragraph, and a table cell, is the       *)
(* sequence of the texts of its runs; a table is a sequence of rows, a row *)
(* a sequence of cells.                                                    *)

RECURSIVE ParaText(_)
\* paragraph.text, cell.text
ParaText(p) == IF p = << >> THEN << >> ELSE Head(p) \o ParaText(Tail(p))

\* Document()
EmptyDocument == [kind |-> "document", paragraphs |-> << >>, tables |-> << >>]

\* a file at the template path that Document(path) cannot open
CorruptFile == [kind |-> "corrupt"]

\* doc.add_paragraph(text), doc.add_heading(text, level), cell.text = text:
\* one run with the text; doc.add_paragraph(): no run
Paragraph(s) == IF s = << >> THEN << >> ELSE << s >>

add_paragraph(d, s) == [d EXCEPT !.paragraphs = Append(@, Paragraph(s))]

\* headers = ['№', 'Наименование', 'Кол-во', 'Ед.', 'Сумма, ₽']
TableHeaders ==
    << <<8470>>, <<1053, 1072, 1080, 1084, 1077, 1085, 1086, 1074, 1072, 1085, 1080, 1077>>, <<1050, 1086, 1083, 45, 1074, 1086>>, <<1045, 1076, 46>>, <<1057, 1091, 1084, 1084, 1072, 44, 32, 8381>> >>

\* doc.add_table(rows=1, cols=5) with the header cells filled
HeaderTable == << [c \in 1..Len(TableHeaders) |-> Paragraph(TableHeaders[c])] >>

\* 'АКТ ВЫПОЛНЕННЫХ РАБОТ'
TitleText == <<1040, 1050, 1058, 32, 1042, 1067, 1055, 1054, 1051, 1053, 1045, 1053, 1053, 1067, 1061, 32, 1056, 1040, 1041, 1054, 1058>>

\* create_default_template(): the document it saves
create_default_template ==
    [kind |-> "document",
     paragraphs |-> << Paragraph(TitleText),
                       Paragraph(<<1044, 1072, 1090, 1072, 58, 32, 123, 100, 97, 116, 101, 125>>),
                       Paragraph(<<1054, 1073, 1098, 1077, 1082, 1090, 58, 32, 123, 111, 98, 106, 101, 99, 116, 95, 110, 97, 109, 101, 125>>),
                       Paragraph(<< >>) >>,
     tables |-> << HeaderTable >>]

\* is_valid_docx(path) of the file at the path
is_valid_docx(file) == file.kind = "document"

\* ensure_template_exists(): the file at the template path afterwards
ensure_template_exists(file) ==
    IF file = None \/ ~is_valid_docx(file) THEN create_default_template ELSE file

RECURSIVE StrReplace(_, _, _)
\* s.replace(old, new), old not empty
StrReplace(s, old, new) ==
    IF Len(s) < Len(old) THEN s
    ELSE IF SubSeq(s, 1, Len(old)) = old
         THEN new \o StrReplace(SubSeq(s, Len(old) + 1, Len(s)), old, new)
         ELSE << Head(s) >> \o StrReplace(Tail(s), old, new)

\* str(x) of a float in thousandths: '3.0', '2.5', '0.125'
StrFloat(x) ==
    Eval(x % 1000, LAMBDA f :
         DigitsOf(x \div 1000) \o <<46>> \o
         (IF f % 100 = 0 THEN DigitsOf(f \div 100)
          ELSE IF f % 10 = 0 THEN <<48 + (f \div 100), 48 + ((f \div 10) % 10)>>
          ELSE <<48 + (f \div 100), 48 + ((f \div 10) % 10), 48 + (f % 10)>>))

\* f"{x:.2f}" of an amount in hundredths
Fixed2(h) == DigitsOf(h \div 100) \o <<46, 48 + ((h % 100) \div 10), 48 + (h % 10)>>

\* '{date}', '{object}', '{total}' and the texts that replace them, in the
\* order of the dictionary
Placeholders(act_data) ==
    << << <<123, 100, 97, 116, 101, 125>>, Strftime(act_data.date) >>,
       << <<123, 111, 98, 106, 101, 99, 116, 125>>, act_data.object_name >>,
       << <<123, 116, 111, 116, 97, 108, 125>>, Fixed2(ActTotal(act_data)) \o <<32, 8381>> >> >>

\* _replace_text_in_paragraph(para, old_text, new_text): the first run that
\* holds old_text is rewritten
_replace_text_in_paragraph(para, old_text, new_text) ==
    IF ~Contains(ParaText(para), old_text) THEN para
    ELSE Eval({i \in 1..Len(para) : Contains(para[i], old_text)}, LAMBDA hits :
              IF hits = {} THEN para
              ELSE [para EXCEPT ![CHOOSE i \in hits : \A j \in hits : i <= j] =
                        StrReplace(@, old_text, new_text)])

RECURSIVE ReplaceAll(_, _, _)
\* for old_text, new_text in placeholders.items(): ..., from the k-th on
ReplaceAll(para, placeholders, k) ==
    IF k > Len(placeholders) THEN para
    ELSE ReplaceAll(_replace_text_in_paragraph(para, placeholders[k][1], placeholders[k][2]),
                    placeholders, k + 1)

\* _replace_placeholders(doc, act_data)
_replace_placeholders(d, act_data) ==
    Eval(Placeholders(act_data), LAMBDA placeholders :
         [kind |-> "document",
          paragraphs |-> [k \in 1..Len(d.paragraphs) |->
                             ReplaceAll(d.paragraphs[k], placeholders, 1)],
          tables |-> [t \in 1..Len(d.tables) |->
                         [r \in 1..Len(d.tables[t]) |->
                             [c \in 1..Len(d.tables[t][r]) |->
                                 ReplaceAll(d.tables[t][r][c], placeholders, 1)]]]])

\* any(word in p.text.lower() for p in paragraphs)
AnyParagraphHas(paragraphs, word) ==
    \E k \in 1..Len(paragraphs) : Contains(LowerStr(ParaText(paragraphs[k])), word)

\* paragraphs[:n] and paragraphs[-n:]
FirstN(paragraphs, n) == SubSeq(paragraphs, 1, IF Len(paragraphs) < n THEN Len(paragraphs) ELSE n)
LastN(paragraphs, n) ==
    SubSeq(paragraphs, IF Len(paragraphs) < n THEN 1 ELSE Len(paragraphs) - n + 1, Len(paragraphs))

\* _has_title(doc): 'акт' and 'выполнен' in one of the first three paragraphs
_has_title(d) ==
    \E k \in 1..Len(FirstN(d.paragraphs, 3)) :
        /\ Contains(LowerStr(ParaText(d.paragraphs[k])), <<1072, 1082, 1090>>)
        /\ Contains(LowerStr(ParaText(d.paragraphs[k])), <<1074, 1099, 1087, 1086, 1083, 1085, 1077, 1085>>)

\* _has_total(doc): 'итог' in one of the last five paragraphs
_has_total(d) == AnyParagraphHas(LastN(d.paragraphs, 5), <<1080, 1090, 1086, 1075>>)

\* if doc.paragraphs and doc.paragraphs[-1].text.strip() != '': doc.add_paragraph()
BlankLineAfter(d) ==
    IF d.paragraphs # << >>
       /\ Strip(ParaText(d.paragraphs[Len(d.paragraphs)]), Whitespace) # << >>
    THEN add_paragraph(d, << >>) ELSE d

\* _add_header(doc, act_data)
_add_header(d, act_data) ==
    Eval(IF ~_has_title(d) THEN add_paragraph(d, TitleText) ELSE d, LAMBDA d1 :
    Eval(IF ~AnyParagraphHas(FirstN(d1.paragraphs, 5), <<1076, 1072, 1090, 1072, 58>>)
         THEN add_paragraph(d1, <<1044, 1072, 1090, 1072, 58, 32>> \o Strftime(act_data.date)) ELSE d1, LAMBDA d2 :
    Eval(IF ~AnyParagraphHas(FirstN(d2.paragraphs, 5), <<1086, 1073, 1098, 1077, 1082, 1090, 58>>)
         THEN add_paragraph(d2, <<1054, 1073, 1098, 1077, 1082, 1090, 58, 32>> \o act_data.object_name) ELSE d2, LAMBDA d3 :
         BlankLineAfter(d3))))

\* ['наименование', 'кол-во', 'ед.', 'цена', 'сумма']
TableKeywords == { <<1085, 1072, 1080, 1084, 1077, 1085, 1086, 1074, 1072, 1085, 1080, 1077>>, <<1082, 1086, 1083, 45, 1074, 1086>>, <<1077, 1076, 46>>, <<1094, 1077, 1085, 1072>>, <<1089, 1091, 1084, 1084, 1072>> }

\* the tables with a cell that holds one of the keywords
ItemTables(d) ==
    {t \in 1..Len(d.tables) :
        \E r \in 1..Len(d.tables[t]) : \E c \in 1..Len(d.tables[t][r]) :
            \E keyword \in TableKeywords :
                Contains(LowerStr(ParaText(d.tables[t][r][c])), keyword)}

\* the key _fill_existing_table files a header cell under
HeaderKey(cell) ==
    Eval(LowerStr(Strip(ParaText(cell), Whitespace)), LAMBDA t :
         IF Contains(t, <<1085, 1072, 1080, 1084, 1077, 1085, 1086, 1074, 1072, 1085, 1080, 1077>>) THEN "name"
         ELSE IF Contains(t, <<1082, 1086, 1083, 45, 1074, 1086>>) \/ Contains(t, <<1082, 1086, 1083, 1080, 1095, 1077, 1089, 1090, 1074, 1086>>) THEN "qty"
         ELSE IF Contains(t, <<1077, 1076, 46>>) \/ Contains(t, <<1077, 1076, 1080, 1085, 1080, 1094, 1072>>) THEN "unit"
         ELSE IF Contains(t, <<1094, 1077, 1085, 1072>>) THEN "price"
         ELSE IF Contains(t, <<1089, 1091, 1084, 1084, 1072>>) \/ Contains(t, <<1089, 1090, 1086, 1080, 1084, 1086, 1089, 1090, 1100>>) THEN "total"
         ELSE "")

\* headers.get(key, default): the columns are counted from 0, and the last
\* header cell filed under a key wins
HeaderColumn(row, key, default) ==
    Eval({i \in 1..Len(row) : HeaderKey(row[i]) = key}, LAMBDA found :
         IF found = {} THEN default
         ELSE (CHOOSE i \in found : \A j \in found : i >= j) - 1)

\* the cell of column col in the row _fill_existing_table adds for an item
FilledCell(row, col, x) ==
    IF col = HeaderColumn(row, "name", 0) THEN Paragraph(x.name)
    ELSE IF col = HeaderColumn(row, "qty", 1) THEN Paragraph(StrFloat(x.quantity))
    ELSE IF col = HeaderColumn(row, "unit", 2) THEN Paragraph(x.unit)
    ELSE IF col = HeaderColumn(row, "price", 3) THEN Paragraph(Fixed2(Round2(x.price)))
    ELSE IF col = HeaderColumn(row, "total", 4) THEN Paragraph(Fixed2(ItemTotal(x)))
    ELSE << >>

\* _fill_existing_table(table, items)
_fill_existing_table(table, items) ==
    table \o [k \in 1..Len(items) |->
                 [c \in 1..Len(table[1]) |-> FilledCell(table[1], c - 1, items[k])]]

\* _create_new_table(doc, items)
_create_new_table(d, items) ==
    add_paragraph(
        [d EXCEPT !.tables =
            Append(@, HeaderTable \o
                      [k \in 1..Len(items) |->
                          << Paragraph(DigitsOf(k)), Paragraph(items[k].name),
                             Paragraph(StrFloat(items[k].quantity)),
                             Paragraph(items[k].unit),
                             Paragraph(Fixed2(ItemTotal(items[k]))) >>])],
        << >>)

\* _add_items_table(doc, items)
_add_items_table(d, items) ==
    Eval(ItemTables(d), LAMBDA found :
         IF found # {}
         THEN [d EXCEPT !.tables[CHOOSE t \in found : \A u \in found : t <= u] =
                   _fill_existing_table(@, items)]
         ELSE _create_new_table(d, items))

\* _add_total(doc, total)
_add_total(d, total) ==
    IF _has_total(d) THEN d
    ELSE add_paragraph(
             add_paragraph(BlankLineAfter(d), <<1048, 1090, 1086, 1075, 1086, 58, 32>> \o Fixed2(total) \o <<32, 8381>>),
             <<1041, 1077, 1079, 32, 1053, 1044, 1057>>)

\* DocxGenerator(template_path).generate_act(act_data, output_path): the
\* document handed to _save_document; file is what lies at template_path
generate_act(file, act_data) ==
    Eval(IF file # None /\ file.kind = "document" THEN file ELSE EmptyDocument, LAMBDA d0 :
    Eval(_replace_placeholders(d0, act_data), LAMBDA d1 :
    Eval(IF ~_has_title(d1) THEN _add_header(d1, act_data) ELSE d1, LAMBDA d2 :
    Eval(_add_items_table(d2, act_data.items), LAMBDA d3 :
         IF ~_has_total(d3) THEN _add_total(d3, ActTotal(act_data)) ELSE d3))))

-----------------------------------------------------------------------------
(* Documents: the acts handed to the generator and the files that may lie  *)
(* at the template path when the user confirms.                            *)

\* the longest list of items of an act
MaxItems == 2

DocItems == <<
    \* 'Услуга' 2 'шт.' × 100
    ActItem(<<1059, 1089, 1083, 1091, 1075, 1072>>, 2000, <<1096, 1090, 46>>, 100000),
    \* 'Кабель' 2.5 'м' × 45.5
    ActItem(<<1050, 1072, 1073, 1077, 1083, 1100>>, 2500, <<1084>>, 45500),
    \* 'Монтаж' 1 'усл.' × 1200
    ActItem(<<1052, 1086, 1085, 1090, 1072, 1078>>, 1000, <<1091, 1089, 1083, 46>>, 1200000) >>

DocItemLists ==
    UNION {[1..n -> {DocItems[k] : k \in 1..Len(DocItems)}] : n \in 1..MaxItems}

\* 'Офис', 'Склад'
DocObjects == { <<1054, 1092, 1080, 1089>>, <<1057, 1082, 1083, 1072, 1076>> }

DocDates == {[year |-> 2024, month |-> 3, day |-> 5],
             [year |-> 2025, month |-> 12, day |-> 31]}

DocActs ==
    {[kind |-> "act", date |-> d, object_name |-> o, items |-> l] :
        d \in DocDates, o \in DocObjects, l \in DocItemLists}

\* a template written by hand: the three placeholders, the date in a run
\* of its own, and a table with a price column
PlaceholderTemplate ==
    [kind |-> "document",
     paragraphs |-> << Paragraph(<<1040, 1082, 1090, 32, 1074, 1099, 1087, 1086, 1083, 1085, 1077, 1085, 1085, 1099, 1093, 32, 1088, 1072, 1073, 1086, 1090>>),
                       << <<1086, 1090, 32>>, <<123, 100, 97, 116, 101, 125>> >>,
                       Paragraph(<<1054, 1073, 1098, 1077, 1082, 1090, 58, 32, 123, 111, 98, 106, 101, 99, 116, 125>>),
                       Paragraph(<<1048, 1090, 1086, 1075, 1086, 58, 32, 123, 116, 111, 116, 97, 108, 125>>) >>,
     tables |-> << << [c \in 1..5 |->
                         Paragraph(<< <<1053, 1072, 1080, 1084, 1077, 1085, 1086, 1074, 1072, 1085, 1080, 1077>>, <<1050, 1086, 1083, 1080, 1095, 1077, 1089, 1090, 1074, 1086>>, <<1045, 1076, 1080, 1085, 1080, 1094, 1072>>,
                                      <<1062, 1077, 1085, 1072>>, <<1057, 1090, 1086, 1080, 1084, 1086, 1089, 1090, 1100>> >>[c])] >> >>]

\* a template written by hand without title, table or total
PlainTemplate ==
    [kind |-> "document",
     paragraphs |-> << Paragraph(<<1048, 1089, 1087, 1086, 1083, 1085, 1080, 1090, 1077, 1083, 1100, 58, 32, 1054, 1054, 1054, 32, 1056, 1086, 1084, 1072, 1096, 1082, 1072>>) >>,
     tables |-> << >>]

TemplateFiles ==
    {None, CorruptFile, create_default_template, PlaceholderTemplate, PlainTemplate}

InitDoc ==
    /\ input \in DocActs
    /\ text = << >>
    /\ pc = "act"
    /\ act = Nothing
    /\ canon = << >>
    /\ act2 = Nothing
    /\ line = << >>
    /\ item = Nothing
    /\ sanitized = << >>
    /\ sanitized2 = << >>
    /\ template \in TemplateFiles
    /\ doc = Nothing
    /\ NoSession

\* template_path = ensure_template_exists()
EnsureTemplate ==
    /\ pc = "act"
    /\ template' = ensure_template_exists(template)
    /\ pc' = "template"
    /\ UNCHANGED <<parserVarsButPc, doc, botVars>>

\* generate_act_document(act_data=..., template_path=template_path, ...)
GenerateAct ==
    /\ pc = "template"
    /\ doc' = generate_act(template, input)
    /\ pc' = "document"
    /\ UNCHANGED <<parserVarsButPc, template, botVars>>

\* generate_act_document(act_data) with template_path left None
GenerateWithoutTemplate ==
    /\ pc = "act"
    /\ doc' = generate_act(None, input)
    /\ pc' = "plain document"
    /\ UNCHANGED <<parserVarsButPc, template, botVars>>

NextDoc == EnsureTemplate \/ GenerateAct \/ GenerateWithoutTemplate

SpecDoc == InitDoc /\ [][NextDoc]_vars

-----------------------------------------------------------------------------
(* app/handlers.py and app/bot.py.  The dispatcher polls with              *)
(* MemoryStorage and handles every update in a task of its own.  A task    *)
(* runs until it awaits a reply of Telegram (message.answer,               *)
(* message.answer_document); the calls of the storage do not suspend it.   *)
(* A task is [id, user, text, pc, ret, path, act_data]: pc is the place it *)
(* is at, ret the place in handle_text it returns to when handle_text      *)
(* called the handler, path and act_data the doc_path and the act given to *)
(* the generator in handle_confirmation.                                   *)

\* BotStates
waiting_for_act          == [kind |-> "state", state |-> "BotStates:waiting_for_act"]
waiting_for_confirmation == [kind |-> "state", state |-> "BotStates:waiting_for_confirmation"]

\* the button texts of get_main_keyboard and get_confirm_keyboard
CreateText  == <<1057, 1086, 1079, 1076, 1072, 1090, 1100, 32, 1072, 1082, 1090>>
HelpText    == <<1055, 1086, 1084, 1086, 1097, 1100>>
CancelText  == <<1054, 1090, 1084, 1077, 1085, 1072>>
ConfirmText == <<9989, 32, 1057, 1075, 1077, 1085, 1077, 1088, 1080, 1088, 1086, 1074, 1072, 1090, 1100, 32, 1072, 1082, 1090>>
EditText    == <<128257, 32, 1048, 1079, 1084, 1077, 1085, 1080, 1090, 1100, 32, 47, 32, 1087, 1077, 1088, 1077, 1075, 1077, 1085, 1077, 1088, 1080, 1088, 1086, 1074, 1072, 1090, 1100>>

\* s.startswith(prefix)
StartsWith(s, prefix) == Len(s) >= Len(prefix) /\ SubSeq(s, 1, Len(prefix)) = prefix

\* Command(name): the text is the command, alone or followed by arguments
IsCommand(s, name) ==
    \/ s = <<47>> \o name
    \/ StartsWith(s, <<47>> \o name \o <<32>>)

\* any(x in message.text.lower() for x in ['×', 'x', '*', 'шт', 'м', 'р', 'руб'])
LooksLikeAct(s) ==
    \E x \in { <<215>>, <<120>>, <<42>>, <<1096, 1090>>, <<1084>>, <<1088>>, <<1088, 1091, 1073>> } : Contains(LowerStr(s), x)

\* setup_routers: the handler of a text message, the first registered one
\* whose filters pass, given the state of the user in the storage
Handler(state, s) ==
    IF IsCommand(s, <<115, 116, 97, 114, 116>>) THEN "cmd_start"
    ELSE IF IsCommand(s, <<104, 101, 108, 112>>) THEN "cmd_help"
    ELSE IF IsCommand(s, <<99, 97, 110, 99, 101, 108>>) THEN "cmd_cancel"
    ELSE IF state = waiting_for_act THEN "handle_act_text"
    ELSE IF state = waiting_for_confirmation THEN "handle_confirmation"
    ELSE IF s = HelpText THEN "help_button"
    ELSE IF s = CreateText THEN "create_act_button"
    ELSE IF s = CancelText THEN "cancel_button"
    ELSE "handle_text"

\* the places where a task is suspended: not yet started, or in an await
Awaiting ==
    {"new", "answered", "act_text.preview_sent", "act_text.error_sent",
     "act_text.hint_sent", "confirmation.stale_sent", "confirmation.generating_sent",
     "confirmation.edit_sent", "confirmation.uploading", "confirmation.replied",
     "create_act.prompt_sent"}

\* the event loop runs one task at a time, until it suspends
Turn(t) == \A o \in tasks : o # t => o.pc \in Awaiting
Idle == \A o \in tasks : o.pc \in Awaiting

\* UserContext.reset()
reset(user_ctx) == [user_ctx EXCEPT !.current_act = None, !.state = "idle"]

\* await state.finish(): FSMContext is aiogram's and not part of the
\* sources; in aiogram 2 finish() clears the state of the user, aiogram 3
\* (whose modules app/bot.py imports) has clear() and no finish(), and the
\* call raises AttributeError
FinishOutcomes == {"cleared", "AttributeError"}

\* the storage after state.finish() with the given outcome
finish(u, outcome) == IF outcome = "cleared" THEN [fsm EXCEPT ![u] = None] ELSE fsm

\* the replies of the bot
Reply(kind) == [kind |-> kind]

\* message.answer(...): the reply is added to those of the message
Answer(t, r) == [sent EXCEPT ![t.id] = Append(@, r)]

\* the task at another place
At(t, place) == (tasks \ {t}) \cup {[t EXCEPT !.pc = place]}

\* the handler returns: to handle_text when handle_text called it and has
\* more to do, else the task ends
Return(t) ==
    IF t.ret = "handle_text.state"
    THEN (tasks \ {t}) \cup {[t EXCEPT !.pc = "handle_text.state", !.ret = ""]}
    ELSE tasks \ {t}

\* an exception leaves the handler: handle_text catches it when it called
\* the handler, else error_handler of app/bot.py gets it; both answer that
\* an error happened, and the task ends after the answer
Failed(t) == (tasks \ {t}) \cup {[t EXCEPT !.pc = "answered", !.ret = ""]}

-----------------------------------------------------------------------------
(* The messages users send, and the handlers step by step *)

\* the number of messages that arrive, the number of handlers in progress
\* at one time, and the seconds that pass
MaxMessages == 3
MaxTasks    == 2
MaxTime     == 1

\* two acts of the same date, and a header without items
ActTextA   == <<35, 1040, 1050, 1058, 32, 48, 53, 46, 48, 51, 46, 50, 48, 50, 52, 32, 124, 32, 1054, 1073, 1098, 1077, 1082, 1090, 58, 32, 1054, 1092, 1080, 1089, 10, 1059, 1089, 1083, 1091, 1075, 1072, 32, 50, 32, 1096, 1090, 32, 215, 32, 49, 48, 48, 8381>>
ActTextB   == <<35, 1040, 1050, 1058, 32, 48, 53, 46, 48, 51, 46, 50, 48, 50, 52, 32, 124, 32, 1054, 1073, 1098, 1077, 1082, 1090, 58, 32, 1057, 1082, 1083, 1072, 1076, 10, 1050, 1072, 1073, 1077, 1083, 1100, 32, 51, 32, 1084, 32, 215, 32, 53, 48, 8381>>
BadActText == <<35, 1040, 1050, 1058, 32, 48, 53, 46, 48, 51, 46, 50, 48, 50, 52, 32, 124, 32, 1054, 1073, 1098, 1077, 1082, 1090, 58, 32, 1054, 1092, 1080, 1089>>

BotTexts ==
    {ActTextA, ActTextB, BadActText, ConfirmText, EditText, CreateText, HelpText,
     CancelText, <<47, 99, 97, 110, 99, 101, 108>>, <<47, 115, 116, 97, 114, 116>>, <<111, 107>>}

\* what the users send in a run: any of the texts; or each user an act
\* and confirmations only, and then one message more
Scenarios ==
    {[texts |-> [u \in Users |-> BotTexts], messages |-> MaxMessages],
     [texts |-> [u \in Users |-> {IF u = 1 THEN ActTextA ELSE ActTextB, ConfirmText}],
      messages |-> MaxMessages + 1]}

\* ActParser.parse_act(message.text) of each text
ParsedTexts == [s \in BotTexts |-> parse_act(s)]

\* error_details of handle_act_text for the exception e
ErrorDetails(e) ==
    <<10060, 32, 60, 98, 62, 1054, 1096, 1080, 1073, 1082, 1072, 32, 1087, 1088, 1080, 32, 1088, 1072, 1079, 1073, 1086, 1088, 1077, 32, 1072, 1082, 1090, 1072, 33, 60, 47, 98, 62, 10, 10, 60, 98, 62, 1055, 1088, 1080, 1095, 1080, 1085, 1072, 58, 60, 47, 98, 62, 32>> \o e.message
    \o <<10, 10, 1055, 1088, 1086, 1074, 1077, 1088, 1100, 1090, 1077, 32, 1092, 1086, 1088, 1084, 1072, 1090, 32, 1074, 1074, 1086, 1076, 1072, 32, 1080, 32, 1087, 1086, 1087, 1088, 1086, 1073, 1091, 1081, 1090, 1077, 32, 1077, 1097, 1077, 32, 1088, 1072, 1079, 46, 10, 10, 60, 98, 62, 1055, 1088, 1080, 1084, 1077, 1088, 32, 1087, 1088, 1072, 1074, 1080, 1083, 1100, 1085, 1086, 1075, 1086, 32, 1092, 1086, 1088, 1084, 1072, 1090, 1072, 58, 60, 47, 98, 62, 10, 60, 99, 111, 100, 101, 62, 35, 1040, 1050, 1058, 32, 49, 48, 46, 48, 54, 46, 50, 48, 50, 53, 32, 124, 32, 1054, 1073, 1098, 1077, 1082, 1090, 58, 32, 1053, 1072, 1079, 1074, 1072, 1085, 1080, 1077, 32, 1086, 1073, 1098, 1077, 1082, 1090, 1072, 10, 1087, 1086, 1076, 1088, 1086, 1079, 1077, 1090, 1085, 1080, 1082, 1080, 32, 51, 48, 215, 52, 48, 8381, 10, 1082, 1072, 1073, 1077, 1083, 1100, 32, 52, 53, 32, 1084, 32, 215, 32, 50, 53, 8381, 60, 47, 99, 111, 100, 101, 62, 10, 10, 1048, 1083, 1080, 32, 1080, 1089, 1087, 1086, 1083, 1100, 1079, 1091, 1081, 1090, 1077, 32, 1092, 1086, 1088, 1084, 1072, 1090, 32, 1089, 32, 34, 1087, 1086, 34, 58, 10, 60, 99, 111, 100, 101, 62, 51, 32, 1082, 1072, 1084, 1077, 1088, 1099, 32, 1087, 1086, 32, 50, 48, 48, 48, 8381, 10, 1089, 1090, 1086, 1081, 1082, 1072, 44, 32, 49, 56, 32, 1084, 1086, 1076, 1091, 1083, 1077, 1081, 32, 1087, 1086, 32, 49, 48, 48, 48, 8381, 60, 47, 99, 111, 100, 101, 62, 10, 10, 60, 105, 62, 1055, 1086, 1076, 1089, 1082, 1072, 1079, 1082, 1072, 58, 32, 1059, 1073, 1077, 1076, 1080, 1090, 1077, 1089, 1100, 44, 32, 1095, 1090, 1086, 32, 1082, 1072, 1078, 1076, 1072, 1103, 32, 1087, 1086, 1079, 1080, 1094, 1080, 1103, 32, 1089, 32, 1085, 1086, 1074, 1086, 1081, 32, 1089, 1090, 1088, 1086, 1082, 1080, 32, 1080, 32, 1091, 1082, 1072, 1079, 1072, 1085, 1099, 32, 1074, 1089, 1077, 32, 1085, 1077, 1086, 1073, 1093, 1086, 1076, 1080, 1084, 1099, 1077, 32, 1087, 1072, 1088, 1072, 1084, 1077, 1090, 1088, 1099, 46, 60, 47, 105, 62>>

\* f'Акт_от_{date:%d.%m.%Y}_{timestamp}.docx' under OUTPUT_DIR
DocPath(act_data, timestamp) ==
    [kind |-> "path", date |-> Strftime(act_data.date), timestamp |-> timestamp]

\* the files after doc.save(path)
Saved(path, document) ==
    [p \in DOMAIN files \cup {path} |-> IF p = path THEN document ELSE files[p]]

InitBot ==
    /\ input \in Scenarios
    /\ text = << >>
    /\ pc = "bot"
    /\ act = Nothing
    /\ canon = << >>
    /\ act2 = Nothing
    /\ line = << >>
    /\ item = Nothing
    /\ sanitized = << >>
    /\ sanitized2 = << >>
    /\ NoDocument
    /\ NoSession

\* an update with a text message of user u is polled and a task made for it
Arrive ==
    /\ Idle
    /\ Len(sent) < input.messages
    /\ Cardinality(tasks) < MaxTasks
    /\ \E u \in Users : \E s \in input.texts[u] :
           tasks' = tasks \cup {[id |-> Len(sent) + 1, user |-> u, text |-> s, pc |-> "new",
                                 ret |-> "", path |-> None, act_data |-> None]}
    /\ sent' = Append(sent, << >>)
    /\ parses' = Append(parses, 0)
    /\ UNCHANGED <<parserVars, docVars, fsm, user_contexts, files, now>>

\* a second passes
Tick ==
    /\ Idle
    /\ now < MaxTime
    /\ now' = now + 1
    /\ UNCHANGED <<parserVars, docVars, fsm, user_contexts, tasks, sent, parses, files>>

\* the task starts: the dispatcher picks the handler
Dispatch ==
    \E t \in tasks :
        /\ Turn(t)
        /\ t.pc = "new"
        /\ tasks' = At(t, Handler(fsm[t.user], t.text))
        /\ UNCHANGED <<parserVars, docVars, fsm, user_contexts, sent, parses, files, now>>

\* cmd_start
CmdStart ==
    \E t \in tasks :
        /\ Turn(t)
        /\ t.pc = "cmd_start"
        /\ sent' = Answer(t, Reply("start"))
        /\ tasks' = At(t, "answered")
        /\ UNCHANGED <<parserVars, docVars, fsm, user_contexts, parses, files, now>>

\* cmd_help, and help_button that calls it
CmdHelp ==
    \E t \in tasks :
        /\ Turn(t)
        /\ t.pc \in {"cmd_help", "help_button"}
        /\ sent' = Answer(t, Reply("help"))
        /\ tasks' = At(t, "answered")
        /\ UNCHANGED <<parserVars, docVars, fsm, user_contexts, parses, files, now>>

\* cmd_cancel, and cancel_button that calls it
CmdCancel ==
    \E t \in tasks, outcome \in FinishOutcomes :
        /\ Turn(t)
        /\ t.pc \in {"cmd_cancel", "cancel_button"}
        /\ user_contexts' = [user_contexts EXCEPT ![t.user] = reset(@)]
        /\ fsm' = finish(t.user, outcome)
        /\ sent' = Answer(t, IF outcome = "cleared" THEN Reply("cancelled") ELSE Reply("failure"))
        /\ tasks' = IF outcome = "cleared" THEN At(t, "answered") ELSE Failed(t)
        /\ UNCHANGED <<parserVars, docVars, parses, files, now>>

\* the answer that ends a handler has been delivered
Answered ==
    \E t \in tasks :
        /\ Turn(t)
        /\ t.pc = "answered"
        /\ tasks' = Return(t)
        /\ UNCHANGED <<parserVars, docVars, fsm, user_contexts, sent, parses, files, now>>

\* handle_act_text if its except clause reset the context of the user
HandleActTextResetting ==
    \E t \in tasks :
        /\ Turn(t)
        /\ t.pc = "handle_act_text"
        /\ parses' = [parses EXCEPT ![t.id] = @ + 1]
        /\ IF ParsedTexts[t.text].kind = "act"
           THEN /\ user_contexts' =
                       [user_contexts EXCEPT ![t.user].current_act = ParsedTexts[t.text]]
                /\ sent' = Answer(t, Reply("preview"))
                /\ tasks' = At(t, "act_text.preview_sent")
           ELSE /\ user_contexts' = [user_contexts EXCEPT ![t.user] = reset(@)]
                /\ sent' = Answer(t, [kind |-> "error",
                                      text |-> ErrorDetails(ParsedTexts[t.text])])
                /\ tasks' = At(t, "act_text.error_sent")
        /\ UNCHANGED <<parserVars, docVars, fsm, files, now>>

\* handle_act_text up to the preview or the error report
HandleActText ==
    \E t \in tasks :
        /\ Turn(t)
        /\ t.pc = "handle_act_text"
        /\ parses' = [parses EXCEPT ![t.id] = @ + 1]
        /\ IF ParsedTexts[t.text].kind = "act"
           THEN /\ user_contexts' =
                       [user_contexts EXCEPT ![t.user].current_act = ParsedTexts[t.text]]
                /\ sent' = Answer(t, Reply("preview"))
                /\ tasks' = At(t, "act_text.preview_sent")
           ELSE /\ user_contexts' = user_contexts
                /\ sent' = Answer(t, [kind |-> "error",
                                      text |-> ErrorDetails(ParsedTexts[t.text])])
                /\ tasks' = At(t, "act_text.error_sent")
        /\ UNCHANGED <<parserVars, docVars, fsm, files, now>>

\* handle_act_text after the preview: the state becomes waiting_for_confirmation
ActPreviewSent ==
    \E t \in tasks :
        /\ Turn(t)
        /\ t.pc = "act_text.preview_sent"
        /\ user_contexts' = [user_contexts EXCEPT ![t.user].last_message_id = [kind |-> "id", id |-> t.id]]
        /\ fsm' = [fsm EXCEPT ![t.user] = waiting_for_confirmation]
        /\ tasks' = Return(t)
        /\ UNCHANGED <<parserVars, docVars, sent, parses, files, now>>

\* handle_act_text after the error report: the hint at the cancel button
ActErrorSent ==
    \E t \in tasks :
        /\ Turn(t)
        /\ t.pc = "act_text.error_sent"
        /\ sent' = Answer(t, Reply("hint"))
        /\ tasks' = At(t, "act_text.hint_sent")
        /\ UNCHANGED <<parserVars, docVars, fsm, user_contexts, parses, files, now>>

ActHintSent ==
    \E t \in tasks :
        /\ Turn(t)
        /\ t.pc = "act_text.hint_sent"
        /\ tasks' = Return(t)
        /\ UNCHANGED <<parserVars, docVars, fsm, user_contexts, sent, parses, files, now>>

\* handle_confirmation up to its first answer
HandleConfirmation ==
    \E t \in tasks :
        /\ Turn(t)
        /\ t.pc = "handle_confirmation"
        /\ IF user_contexts[t.user].current_act = None
           THEN /\ sent' = Answer(t, Reply("stale"))
                /\ tasks' = At(t, "confirmation.stale_sent")
           ELSE IF t.text = ConfirmText
           THEN /\ sent' = Answer(t, Reply("generating"))
                /\ tasks' = At(t, "confirmation.generating_sent")
           ELSE IF t.text = EditText
           THEN /\ sent' = Answer(t, Reply("edit"))
                /\ tasks' = At(t, "confirmation.edit_sent")
           ELSE /\ sent' = sent
                /\ tasks' = Return(t)
        /\ UNCHANGED <<parserVars, docVars, fsm, user_contexts, parses, files, now>>

\* handle_confirmation without an act, after the answer: state.finish()
ConfirmStaleSent ==
    \E t \in tasks, outcome \in FinishOutcomes :
        /\ Turn(t)
        /\ t.pc = "confirmation.stale_sent"
        /\ fsm' = finish(t.user, outcome)
        /\ sent' = IF outcome = "cleared" THEN sent ELSE Answer(t, Reply("failure"))
        /\ tasks' = IF outcome = "cleared" THEN Return(t) ELSE Failed(t)
        /\ UNCHANGED <<parserVars, docVars, user_contexts, parses, files, now>>

\* handle_confirmation of the edit button, after the answer
ConfirmEditSent ==
    \E t \in tasks :
        /\ Turn(t)
        /\ t.pc = "confirmation.edit_sent"
        /\ fsm' = [fsm EXCEPT ![t.user] = waiting_for_act]
        /\ tasks' = Return(t)
        /\ UNCHANGED <<parserVars, docVars, user_contexts, sent, parses, files, now>>

\* handle_confirmation of the confirm button after 'Генерация акта...': the
\* template, the file name, the generation and the start of the upload.
\* generate_act raises ValueError when the generation or the saving fails;
\* user_ctx.current_act is read anew and may have been reset meanwhile, and
\* then the file name raises AttributeError past the finally clause
ConfirmGenerate ==
    \E t \in tasks, generation \in {"saved", "ValueError"}, outcome \in FinishOutcomes :
        /\ Turn(t)
        /\ t.pc = "confirmation.generating_sent"
        /\ template' = ensure_template_exists(template)
        /\ IF user_contexts[t.user].current_act = None
           THEN /\ generation = "saved"
                /\ user_contexts' = [user_contexts EXCEPT ![t.user] = reset(@)]
                /\ fsm' = finish(t.user, outcome)
                /\ sent' = Answer(t, Reply("failure"))
                /\ tasks' = Failed(t)
                /\ files' = files
           ELSE IF generation = "saved"
           THEN /\ outcome = "cleared"
                /\ files' = Saved(DocPath(user_contexts[t.user].current_act, now),
                                  generate_act(template', user_contexts[t.user].current_act))
                /\ tasks' = (tasks \ {t}) \cup
                       {[t EXCEPT !.pc = "confirmation.uploading",
                                  !.path = DocPath(user_contexts[t.user].current_act, now),
                                  !.act_data = user_contexts[t.user].current_act]}
                /\ UNCHANGED <<fsm, user_contexts, sent>>
           ELSE /\ outcome = "cleared"
                /\ sent' = Answer(t, Reply("generation failed"))
                /\ tasks' = At(t, "confirmation.replied")
                /\ UNCHANGED <<fsm, user_contexts, files>>
        /\ UNCHANGED <<parserVars, doc, parses, now>>

\* message.answer_document(FSInputFile(doc_path)): the file is read while
\* the request is made.  An OSError is answered, any other error leads to
\* the fallback, which fails on Document (not imported in handlers.py) and
\* raises past the finally clause
ConfirmUpload ==
    \E t \in tasks, upload \in {"sent", "IOError", "TelegramError"}, outcome \in FinishOutcomes :
        /\ Turn(t)
        /\ t.pc = "confirmation.uploading"
        /\ IF upload = "sent"
           THEN /\ outcome = "cleared"
                /\ sent' = Answer(t, [kind |-> "document", path |-> t.path,
                                      document |-> files[t.path]])
                /\ tasks' = At(t, "confirmation.replied")
                /\ UNCHANGED <<fsm, user_contexts>>
           ELSE IF upload = "IOError"
           THEN /\ outcome = "cleared"
                /\ sent' = Answer(t, Reply("saving failed"))
                /\ tasks' = At(t, "confirmation.replied")
                /\ UNCHANGED <<fsm, user_contexts>>
           ELSE /\ user_contexts' = [user_contexts EXCEPT ![t.user] = reset(@)]
                /\ fsm' = finish(t.user, outcome)
                /\ sent' = Answer(t, Reply("failure"))
                /\ tasks' = Failed(t)
        /\ UNCHANGED <<parserVars, docVars, parses, files, now>>

\* the finally clause of handle_confirmation: user_ctx.reset() and
\* state.finish(), whose exception is logged
ConfirmFinally ==
    \E t \in tasks, outcome \in FinishOutcomes :
        /\ Turn(t)
        /\ t.pc = "confirmation.replied"
        /\ user_contexts' = [user_contexts EXCEPT ![t.user] = reset(@)]
        /\ fsm' = finish(t.user, outcome)
        /\ tasks' = Return(t)
        /\ UNCHANGED <<parserVars, docVars, sent, parses, files, now>>

\* create_act_button up to its answer
CreateActButton ==
    \E t \in tasks :
        /\ Turn(t)
        /\ t.pc = "create_act_button"
        /\ sent' = Answer(t, Reply("prompt"))
        /\ tasks' = At(t, "create_act.prompt_sent")
        /\ UNCHANGED <<parserVars, docVars, fsm, user_contexts, parses, files, now>>

\* create_act_button after the answer: state.clear(), then waiting_for_act
CreatePromptSent ==
    \E t \in tasks :
        /\ Turn(t)
        /\ t.pc = "create_act.prompt_sent"
        /\ fsm' = [fsm EXCEPT ![t.user] = waiting_for_act]
        /\ tasks' = Return(t)
        /\ UNCHANGED <<parserVars, docVars, user_contexts, sent, parses, files, now>>

\* handle_text up to the second reading of the state
HandleText ==
    \E t \in tasks :
        /\ Turn(t)
        /\ t.pc = "handle_text"
        /\ IF StartsWith(t.text, <<47>>)
           THEN /\ sent' = Answer(t, Reply("start"))
                /\ tasks' = At(t, "answered")
                /\ fsm' = fsm
           ELSE IF StartsWith(Strip(t.text, Whitespace), <<35, 1040, 1050, 1058>>)
           THEN /\ fsm' = [fsm EXCEPT ![t.user] = waiting_for_act]
                /\ tasks' = (tasks \ {t}) \cup
                       {[t EXCEPT !.pc = "handle_act_text", !.ret = "handle_text.state"]}
                /\ sent' = sent
           ELSE /\ tasks' = At(t, "handle_text.state")
                /\ UNCHANGED <<fsm, sent>>
        /\ UNCHANGED <<parserVars, docVars, user_contexts, parses, files, now>>

\* handle_text from the second reading of the state on
HandleTextState ==
    \E t \in tasks :
        /\ Turn(t)
        /\ t.pc = "handle_text.state"
        /\ IF fsm[t.user] = waiting_for_act
           THEN /\ tasks' = (tasks \ {t}) \cup
                       {[t EXCEPT !.pc = "handle_act_text", !.ret = "handle_text.end"]}
                /\ UNCHANGED <<fsm, sent>>
           ELSE IF fsm[t.user] = waiting_for_confirmation
           THEN /\ tasks' = (tasks \ {t}) \cup
                       {[t EXCEPT !.pc = "handle_confirmation", !.ret = "handle_text.end"]}
                /\ UNCHANGED <<fsm, sent>>
           ELSE IF LooksLikeAct(t.text)
           THEN /\ fsm' = [fsm EXCEPT ![t.user] = waiting_for_act]
                /\ tasks' = (tasks \ {t}) \cup
                       {[t EXCEPT !.pc = "handle_act_text", !.ret = "handle_text.end"]}
                /\ sent' = sent
           ELSE /\ sent' = Answer(t, Reply("help"))
                /\ tasks' = At(t, "answered")
                /\ fsm' = fsm
        /\ UNCHANGED <<parserVars, docVars, user_contexts, parses, files, now>>

NextBot ==
    \/ Arrive \/ Tick \/ Dispatch
    \/ CmdStart \/ CmdHelp \/ CmdCancel \/ Answered
    \/ HandleActText \/ ActPreviewSent \/ ActErrorSent \/ ActHintSent
    \/ HandleConfirmation \/ ConfirmStaleSent \/ ConfirmEditSent
    \/ ConfirmGenerate \/ ConfirmUpload \/ ConfirmFinally
    \/ CreateActButton \/ CreatePromptSent
    \/ HandleText \/ HandleTextState

SpecBot == InitBot /\ [][NextBot]_vars

-----------------------------------------------------------------------------
(* What a message says, read off the pieces it was written from.           *)

\* parse_act has returned or raised
Parsed == pc # "start"

\* the k-th item line of a message
LineRec(in, k) == ItemLines[in.lines[k]]
LineIndexes(in) == 1..Len(in.lines)

\* '#АКТ' in either case followed by whitespace
MarkerForm(m) ==
    /\ Len(m) >= 5
    /\ m[1] = 35
    /\ LowerStr(SubSeq(m, 2, 4)) = <<1072, 1082, 1090>>
    /\ \A i \in 5..Len(m) : m[i] \in Whitespace

\* '|' and 'Объект:' in either case, with optional whitespace around them
LabelForm(l) ==
    LowerStr(SelectSeq(l, LAMBDA c : c \notin Whitespace))
        = <<124, 1086, 1073, 1098, 1077, 1082, 1090, 58>>

\* the first line has the form '#АКТ <date token> | Объект: <name>'
HeaderForm(in) == ~in.blank /\ MarkerForm(in.marker) /\ LabelForm(in.label)

\* the days of a month of the Gregorian calendar
CalendarDays(y, m) ==
    CASE m \in {1, 3, 5, 7, 8, 10, 12} -> 31
      [] m \in {4, 6, 9, 11} -> 30
      [] m = 2 -> IF y % 400 = 0 \/ (y % 4 = 0 /\ y % 100 # 0) THEN 29 ELSE 28
      [] OTHER -> 0

\* the date token is day.month.year with dots, a 4-digit year and a day that
\* exists
StrictDate(in) ==
    /\ in.sep = 46
    /\ Len(in.y.s) = 4
    /\ in.y.v >= 1
    /\ in.d.v \in 1..CalendarDays(in.y.v, in.m.v)

WellFormedHeader(in) == HeaderForm(in) /\ StrictDate(in)

\* the date written in the header
WrittenDate(in) == [year |-> in.y.v, month |-> in.m.v, day |-> in.d.v]

\* s holds a disallowed phrase
Disallowed(s) ==
    \E k \in 1..Len(WORD_REPLACEMENTS) : Contains(LowerStr(s), WORD_REPLACEMENTS[k][1])

\* the item with exactly the fields written on a canonical line
Written(l) ==
    [kind |-> "item", name |-> l.name.s, quantity |-> l.qty.v,
     unit |-> l.unit.s, price |-> l.price.v]

\* the item parse_act stores for a recognized line
Stored(l) ==
    [kind |-> "item", name |-> l.name.v, quantity |-> l.qty.v,
     unit |-> l.unit.v, price |-> l.price.v]

\* a canonical line with a positive quantity and a positive price
Positive(l) == l.canonical /\ l.qty.v > 0 /\ l.price.v > 0

\* the identity rule of the data model: names equal ignoring case, units
\* equal ignoring case, prices less than 0.01 apart
Duplicates(x, y) ==
    /\ LowerStr(x.name) = LowerStr(y.name)
    /\ LowerStr(x.unit) = LowerStr(y.unit)
    /\ x.price - y.price < 10
    /\ y.price - x.price < 10

\* same name, unit and price
SameNameUnitPrice(x, y) == x.name = y.name /\ x.unit = y.unit /\ x.price = y.price

\* a * b of two values in thousandths: whole hundredths, and the rest in
\* millionths
Product(a, b) ==
    LET ai == a \div 1000
        af == a % 1000
        bi == b \div 1000
        bf == b % 1000
        low == (ai * bf + af * bi) * 1000 + af * bf
    IN [cents |-> ai * bi * 100 + low \div 10000, rest |-> low % 10000]

\* a * b rounded to hundredths
RoundedCents(a, b) ==
    Product(a, b).cents + (IF Product(a, b).rest >= 5000 THEN 1 ELSE 0)

RECURSIVE Sum(_, _)
\* f[1] + ... + f[n]
Sum(f, n) == IF n = 0 THEN 0 ELSE f[n] + Sum(f, n - 1)

\* a well-formed act: a valid header followed by canonical item lines with
\* positive quantities and prices
WellFormedAct(in) ==
    /\ WellFormedHeader(in)
    /\ in.lines # << >>
    /\ \A k \in LineIndexes(in) : Positive(LineRec(in, k))

-----------------------------------------------------------------------------
(* The parser's contract *)

\* C1: for every text that parse_act accepts, parsing the canonical text of
\* the record succeeds and returns a record with the same date, object name
\* and items
C1_RoundTrip == pc = "done" => act2 = act

\* C2, as stated: a well-formed act is parsed into the header's date and
\* object name, one item per line in input order with exactly the fields
\* written, and a total equal to the sum of quantity * price
C2_WellFormedActAsWritten ==
    (Parsed /\ WellFormedAct(input)) =>
        /\ act.kind = "act"
        /\ act.date = WrittenDate(input)
        /\ act.object_name = Strip(input.obj.s, Whitespace)
        /\ act.items = [k \in LineIndexes(input) |-> Written(LineRec(input, k))]
        /\ LET n == Len(input.lines)
               products == [k \in 1..n |->
                   Product(LineRec(input, k).qty.v, LineRec(input, k).price.v)]
           IN (ActTotal(act) - Sum([k \in 1..n |-> products[k].cents], n)) * 10000
                  = Sum([k \in 1..n |-> products[k].rest], n)

\* the item lines have different names, ignoring case
DifferentNames(in) ==
    \A i, j \in LineIndexes(in) :
        LowerStr(LineRec(in, i).name.s) = LowerStr(LineRec(in, j).name.s) => i = j

\* C2, amended: a well-formed act without a disallowed phrase whose lines
\* have different names is parsed into the header's date and trimmed object
\* name and one item per line in input order, with the name, quantity and
\* price written and the unit in lower case, normalised by the synonym
\* table; its total is the sum of the line totals, each rounded to
\* hundredths
C2_WellFormedActNormalised ==
    (Parsed /\ WellFormedAct(input) /\ DifferentNames(input) /\ ~Disallowed(text)) =>
        /\ act.kind = "act"
        /\ act.date = WrittenDate(input)
        /\ act.object_name = Strip(input.obj.s, Whitespace)
        /\ act.items = [k \in LineIndexes(input) |-> Stored(LineRec(input, k))]
        /\ \A k \in LineIndexes(input) : act.items[k].name = LineRec(input, k).name.s
        /\ ActTotal(act) =
               Sum([k \in LineIndexes(input) |->
                       RoundedCents(LineRec(input, k).qty.v, LineRec(input, k).price.v)],
                   Len(input.lines))

\* the sample act is parsed into its two items and the total 3000.00
C2_SampleActParsed ==
    /\ pc = "parsed"
    /\ input = SampleMessage(<<1, 2>>, << >>, << >>)
    /\ act.kind = "act"
    /\ act.items = <<Written(ItemLines[1]), Written(ItemLines[2])>>
    /\ ActTotal(act) = 300000

\* lines i < j of the message are recognized and have the same name, unit
\* and price but different quantities
DedupPair(in, i, j) ==
    /\ i < j
    /\ Positive(LineRec(in, i)) /\ Positive(LineRec(in, j))
    /\ SameNameUnitPrice(Written(LineRec(in, i)), Written(LineRec(in, j)))
    /\ LineRec(in, i).qty.v # LineRec(in, j).qty.v

\* the items of a with the name, unit and price of x
Retained(a, x) == {p \in 1..Len(a.items) : SameNameUnitPrice(a.items[p], x)}

\* the items of a are stored items of lines of the message, in input order
InInputOrder(in, a) ==
    \E f \in [1..Len(a.items) -> LineIndexes(in)] :
        /\ \A p \in 1..Len(a.items) : a.items[p] = Stored(LineRec(in, f[p]))
        /\ \A p, q \in 1..Len(a.items) : p < q => f[p] < f[q]

C4_NoDuplicatesRetained ==
    (Parsed /\ act.kind = "act") =>
        \A p, q \in 1..Len(act.items) :
            Duplicates(act.items[p], act.items[q]) => p = q

\* C5: parse_act never returns a record without items: a text without a
\* non-blank line fails with 'Пустой акт' before the header is looked at, and
\* a text with a valid header but no recognized line fails with 'Не найдено
\* ни одной позиции в акте'
C5_NoEmptyAct ==
    /\ Parsed =>
           /\ act.kind = "act" => act.items # << >>
           /\ input.blank => act = ValueError(EmptyActMessage)
           /\ (WellFormedHeader(input)
               /\ \A k \in LineIndexes(input) : ~LineRec(input, k).recognized)
              => act = ValueError(NoItemsMessage)
    /\ (pc = "done" /\ act2.kind = "act") => act2.items # << >>

\* a valid header followed by lines that are not items is refused
C5_HeaderWithoutItemsRefused ==
    /\ pc = "parsed"
    /\ WellFormedHeader(input)
    /\ input.lines = <<8, 7>>
    /\ act = ValueError(NoItemsMessage)

\* C6: _parse_item returns an item or None, and a text with a valid header
\* and a recognizable line is parsed into a record that holds the item of
\* every recognizable line, whatever unrecognizable lines are among them
C6_MalformedLineNotFatal ==
    /\ pc = "item" => item.kind \in {"item", "None"}
    /\ (Parsed /\ WellFormedHeader(input)
        /\ \E k \in LineIndexes(input) : LineRec(input, k).recognized)
       => /\ act.kind = "act"
          /\ \A k \in LineIndexes(input) :
                 LineRec(input, k).recognized =>
                     \E p \in 1..Len(act.items) :
                         Duplicates(act.items[p], Stored(LineRec(input, k)))

\* C7: every item of a returned record has a name that is not empty after
\* trimming, a quantity above 0 and a price above 0
C7_ItemInvariants ==
    /\ (Parsed /\ act.kind = "act") =>
           \A p \in 1..Len(act.items) :
               /\ Strip(act.items[p].name, Whitespace) # << >>
               /\ act.items[p].quantity > 0
               /\ act.items[p].price > 0
    /\ (pc = "item" /\ item.kind = "item") =>
           /\ Strip(item.name, Whitespace) # << >>
           /\ item.quantity > 0
           /\ item.price > 0

\* C8, as stated: a header '#АКТ D.M.YYYY | Объект: X' with a real date gives
\* the date D.M.YYYY and the object name X trimmed, whatever X is
C8_HeaderAsWritten ==
    (Parsed /\ WellFormedHeader(input)
     /\ \E k \in LineIndexes(input) : LineRec(input, k).recognized) =>
        /\ act.kind = "act"
        /\ act.date = WrittenDate(input)
        /\ act.object_name = Strip(input.obj.s, Whitespace)

\* C8, amended: a record returned for such a header has the date D.M.YYYY
\* and the object name X trimmed when X holds no disallowed phrase, the
\* sanitized name otherwise; a record is returned when the text holds no
\* disallowed phrase and one of its lines is recognized
C8_HeaderSanitized ==
    (Parsed /\ WellFormedHeader(input)) =>
        /\ act.kind = "act" =>
               /\ act.date = WrittenDate(input)
               /\ act.object_name = input.obj.v
               /\ ~Disallowed(input.obj.s) =>
                      act.object_name = Strip(input.obj.s, Whitespace)
               /\ Disallowed(input.obj.s) =>
                      act.object_name # Strip(input.obj.s, Whitespace)
        /\ (~Disallowed(text) /\ \E k \in LineIndexes(input) : LineRec(input, k).recognized)
           => act.kind = "act"

\* the object name '  Склад 7  ' is stored trimmed
C8_ObjectNameTrimmed ==
    /\ pc = "parsed"
    /\ WellFormedHeader(input)
    /\ input.obj.s # Strip(input.obj.s, Whitespace)
    /\ act.kind = "act"
    /\ act.date = WrittenDate(input)
    /\ act.object_name = Strip(input.obj.s, Whitespace)

\* C9: a header whose date token uses '/', has a year of 2 or 3 digits or
\* names no real day is refused with the date-format error, which quotes the
\* token; a first line that is not a header is refused with the header
\* error; no record is returned for either, so no other date format is
\* accepted
C9_StrictHeaderDate ==
    (Parsed /\ ~input.blank) =>
        /\ ~HeaderForm(input) => act = ValueError(HeaderMessage)
        /\ (HeaderForm(input) /\ ~StrictDate(input)) =>
               /\ act = ValueError(DateMessage(DateToken(input)))
               /\ Contains(act.message, DateToken(input))
        /\ act.kind = "act" =>
               /\ HeaderForm(input) /\ StrictDate(input)
               /\ act.date = WrittenDate(input)

\* the header date 29.02.2023 is refused and the message quotes it
C9_NoSuchDayRefused ==
    /\ pc = "parsed"
    /\ HeaderForm(input)
    /\ input.sep = 46 /\ Len(input.y.s) = 4
    /\ input.d.v = 29 /\ input.m.v = 2 /\ input.y.v = 2023
    /\ act.kind = "error"
    /\ Contains(act.message, DateToken(input))

\* the default unit 'шт.'
WrittenUnit(l) == IF l.unit.s = << >> THEN <<1096, 1090, 46>> ELSE l.unit.s

\* C10, as stated: a canonical line with a positive quantity and price gives
\* the item with exactly the name, quantity, unit and price written, the
\* unit being 'шт.' when none is written
C10_CanonicalLineAsWritten ==
    (pc = "item" /\ Positive(input)) =>
        item = [Written(input) EXCEPT !.unit = WrittenUnit(input)]

\* letters and dots
UnitLetters == IgnoreCase((1072..1103) \cup (97..122)) \cup {46}

\* C10, amended: a canonical line with a positive quantity and price, a name
\* without digits and a unit of letters and dots gives the item with the
\* name, quantity and price written and the unit in lower case, normalised
\* by the synonym table, 'шт.' when none is written
C10_CanonicalLineNormalised ==
    (/\ pc = "item"
     /\ Positive(input)
     /\ \A i \in 1..Len(input.name.s) : input.name.s[i] \notin Digits
     /\ \A i \in 1..Len(input.unit.s) : input.unit.s[i] \in UnitLetters) =>
        /\ item = [Written(input) EXCEPT !.unit = input.unit.v]
        /\ input.unit.s = << >> => item.unit = <<1096, 1090, 46>>
        /\ item.unit = LowerStr(item.unit)

\* 'Мытье окон 3 ШТ × 500' gives the unit 'шт.'
C10_UnitNormalised ==
    /\ pc = "item"
    /\ Positive(input)
    /\ input.unit.s = <<1064, 1058>>
    /\ item.kind = "item"
    /\ item.name = input.name.s
    /\ item.unit = <<1096, 1090, 46>>

\* the number a x b in thousandths
TimesValue(a, b) == Product(a, b).cents * 10 + Product(a, b).rest \div 1000

C13_PriceTimesNights ==
    (pc = "item" /\ input.form = "nights") =>
        /\ item.kind = "item"
        /\ item.price = input.price.v * input.nights

\* C14: a line '<name>, <N> <module word> по <price>' gives the item with
\* the name before the comma, the quantity N, the unit 'мод.' and the price
C14_ModuleLineRecognized ==
    (pc = "item" /\ input.form = "module") =>
        item = [kind |-> "item", name |-> input.name.s, quantity |-> input.qty.v,
                unit |-> <<1084, 1086, 1076, 46>>, price |-> input.price.v]

\* C15: when a line matches the canonical pattern and one of its numbers
\* fails conversion or validation, _parse_item returns what the later
\* patterns of the cascade give for the line: their item when one of them
\* matches, no-match when none does
C15_CascadeProceeds ==
    (pc = "item" /\ input.form = "cascade" /\ ReMatch(ITEM_PATTERN, line).ok) =>
        item = input.later

\* a line '<name> <N> x <M>' with a Latin x and positive numbers
BareTimes(l) == l.form = "bare" /\ l.latin /\ l.qty.v > 0 /\ l.price.v > 0

-----------------------------------------------------------------------------
(* The sanitizer's contract *)

\* C16: clean_text is idempotent: cleaning a text that clean_text returned
\* gives the same text, with no second annotation suffix and no further
\* substitution
C16_CleanTextIdempotent ==
    pc = "cleaned twice" => sanitized2 = sanitized

\* a phrase of WORD_REPLACEMENTS occurs in the text of the input
HasMapped(in) == in.w1.mapped \/ in.w2.mapped

\* the text of the input with every phrase replaced by its own replacement
OwnReplacements(in) == in.pre \o in.w1.r \o in.joint \o in.w2.r \o in.end

\* C17: for a text that contains a mapped phrase, clean_text returns the text
\* with every occurrence of every mapped phrase replaced by that phrase's own
\* replacement, followed by the annotation suffix
C17_OwnReplacementsAndSuffix ==
    (pc = "cleaned" /\ HasMapped(input)) =>
        sanitized = OwnReplacements(input) \o AnnotationSuffix

\* a forbidden word, in some inflected form, is written in the input
HasForbidden(in) == in.w1.forbidden \/ in.w2.forbidden

\* the text of the input with every forbidden word replaced by its neutral
\* word
NeutralText(in) == in.pre \o in.w1.neutral \o in.joint \o in.w2.neutral \o in.end

\* C18: for a text with forbidden words, clean_text returns the input with
\* each forbidden word replaced by its neutral word and nothing else added or
\* changed; 'Услуги шлюх и проституток' becomes 'Услуги Девушки и персонал'
C18_ForbiddenWordsReplaced ==
    (pc = "cleaned" /\ HasForbidden(input)) =>
        /\ sanitized = NeutralText(input)
        /\ text = <<1059, 1089, 1083, 1091, 1075, 1080, 32, 1096, 1083, 1102, 1093, 32, 1080, 32, 1087, 1088, 1086, 1089, 1090, 1080, 1090, 1091, 1090, 1086, 1082>>
                => sanitized = <<1059, 1089, 1083, 1091, 1075, 1080, 32, 1044, 1077, 1074, 1091, 1096, 1082, 1080, 32, 1080, 32, 1087, 1077, 1088, 1089, 1086, 1085, 1072, 1083>>

\* C19: for a text that contains no mapped phrase, clean_text returns the
\* text unchanged, with no substitution and no annotation suffix
C19_GoodTextUnchanged ==
    (pc = "cleaned" /\ ~HasMapped(input)) => sanitized = text

\* 'Обычный текст без запрещенных слов' holds no phrase of the table and is
\* returned as it is
C19_GoodTextCleaned ==
    /\ pc = "cleaned"
    /\ ~HasMapped(input)
    /\ \A k \in 1..Len(WORD_REPLACEMENTS) : ~Contains(LowerStr(text), WORD_REPLACEMENTS[k][1])
    /\ text = <<1054, 1073, 1099, 1095, 1085, 1099, 1081, 32, 1090, 1077, 1082, 1089, 1090, 32, 1073, 1077, 1079, 32, 1079, 1072, 1087, 1088, 1077, 1097, 1077, 1085, 1085, 1099, 1093, 32, 1089, 1083, 1086, 1074>>
    /\ sanitized = text

\* the number of newlines of a text
Newlines(s) == Cardinality({i \in 1..Len(s) : s[i] = 10})

\* C20: clean_text changes no line count: the cleaned text has as many
\* newlines as the text, and splits into as many non-blank trimmed lines,
\* also when the text ends with a newline or with spaces
C20_LineCountKept ==
    pc = "cleaned" =>
        /\ Newlines(sanitized) = Newlines(text)
        /\ Len(NonBlankLines(sanitized)) = Len(NonBlankLines(text))

\* C29: in a text with a valid header, every item line without a
\* disallowed phrase that _parse_item recognizes on its own yields its item
\* in the record, whether or not the header or another line holds a
\* disallowed phrase, the last line included
C29_CleanLinesUnaffected ==
    (Parsed /\ WellFormedHeader(input)) =>
        \A k \in LineIndexes(input) :
            (LineRec(input, k).recognized /\ ~Disallowed(LineText(LineRec(input, k))))
            => /\ act.kind = "act"
               /\ \E p \in 1..Len(act.items) :
                      Duplicates(act.items[p], Stored(LineRec(input, k)))

-----------------------------------------------------------------------------
(* The generated document *)

\* generate_act has returned a document
Generated == pc \in {"document", "plain document"}

\* the texts of the cells of a table row
CellTexts(row) == {ParaText(row[c]) : c \in 1..Len(row)}

\* the row shows the k-th item x: its index, name, quantity, unit and total
RowShows(row, k, x) ==
    {DigitsOf(k), x.name, StrFloat(x.quantity), x.unit, Fixed2(ItemTotal(x))}
        \subseteq CellTexts(row)

\* the table has a header row and then one row per item, in item order
ShowsItems(table, items) ==
    /\ Len(table) = 1 + Len(items)
    /\ \A k \in 1..Len(items) : RowShows(table[k + 1], k, items[k])

\* C24: every generated document has an items table with exactly one row
\* per item of the act, in item order, each row carrying the item's 1-based
\* index, name, quantity, unit and line total, whether the table is new or
\* the table of the template
C24_RowsCarryItems ==
    Generated => \E t \in 1..Len(doc.tables) : ShowsItems(doc.tables[t], input.items)

\* every text of the document: its paragraphs and its table cells
DocTexts(d) ==
    {ParaText(d.paragraphs[k]) : k \in 1..Len(d.paragraphs)}
    \cup UNION {UNION {CellTexts(d.tables[t][r]) : r \in 1..Len(d.tables[t])} :
                   t \in 1..Len(d.tables)}

\* C30: a document generated in the confirm flow from the default template
\* shows the date and the object name of the act and has no placeholder
\* token (a name in braces) left
C30_DefaultTemplateFilled ==
    (pc = "document" /\ template = create_default_template) =>
        /\ \E s \in DocTexts(doc) : Contains(s, Strftime(input.date))
        /\ \E s \in DocTexts(doc) : Contains(s, input.object_name)
        /\ \A s \in DocTexts(doc) : ~Contains(s, <<123>>)

-----------------------------------------------------------------------------
(* The sessions *)

\* the last reply to the message of a task
LastReply(t) == sent[t.id][Len(sent[t.id])]

\* the step ends the handler call of task t
Ends(t) == t \notin tasks'

\* C22: when the generation or the saving of the document fails after the
\* user confirmed, the handler leaves the pending act of the user untouched
C22_FailureKeepsPendingAct ==
    [][\A t \in tasks :
          (/\ t.pc = "confirmation.replied"
           /\ LastReply(t).kind \in {"generation failed", "saving failed"}
           /\ Ends(t))
          => user_contexts'[t.user].current_act = user_contexts[t.user].current_act]_vars

\* the task is in handle_act_text on a text that parse_act refuses
ParseFailing(t) ==
    \/ t.pc = "handle_act_text" /\ ParsedTexts[t.text].kind # "act"
    \/ t.pc \in {"act_text.error_sent", "act_text.hint_sent"}

\* '#АКТ 10.06.2025 | Объект: Название объекта\nподрозетники 30×40₽\nкабель 45 м × 25₽'
InputTemplate ==
    <<35, 1040, 1050, 1058, 32, 49, 48, 46, 48, 54, 46, 50, 48, 50, 53, 32, 124, 32, 1054, 1073, 1098, 1077, 1082, 1090, 58, 32, 1053, 1072, 1079, 1074, 1072, 1085, 1080, 1077, 32, 1086, 1073, 1098, 1077, 1082, 1090, 1072, 10, 1087, 1086, 1076, 1088, 1086, 1079, 1077, 1090, 1085, 1080, 1082, 1080, 32, 51, 48, 215, 52, 48, 8381, 10, 1082, 1072, 1073, 1077, 1083, 1100, 32, 52, 53, 32, 1084, 32, 215, 32, 50, 53, 8381>>

\* C23: when parse_act fails in handle_act_text, the handler answers with
\* the error message and the input template, no exception leaves it, and
\* no step of it changes the state or the context of a user: the state
\* stays waiting_for_act and the pending act stays
C23_ParseFailureKeepsSession ==
    [][\A t \in tasks :
          (ParseFailing(t) /\ t \notin tasks')
          => /\ UNCHANGED <<fsm, user_contexts>>
             /\ t.pc = "handle_act_text" =>
                    /\ fsm[t.user] = waiting_for_act
                    /\ Len(sent'[t.id]) = Len(sent[t.id]) + 1
                    /\ sent'[t.id][Len(sent'[t.id])].kind = "error"
                    /\ Contains(sent'[t.id][Len(sent'[t.id])].text,
                                ParsedTexts[t.text].message)
                    /\ Contains(sent'[t.id][Len(sent'[t.id])].text, InputTemplate)
             /\ t.pc # "handle_act_text" =>
                    \A k \in 1..Len(sent'[t.id]) : sent'[t.id][k].kind # "failure"]_vars

\* a user with a pending act in the state waiting_for_act has been told of
\* a parse error, and the act and the state are still there
C23_ErrorReportedActKept ==
    \E t \in tasks :
        /\ t.pc = "act_text.hint_sent"
        /\ t.text = BadActText
        /\ user_contexts[t.user].current_act = ParsedTexts[ActTextA]
        /\ fsm[t.user] = waiting_for_act
        /\ \A o \in tasks : o = t

\* C25: in every state of the session a message 'Отмена' is handled by the
\* cancel logic, and when it is answered the user has no pending act and
\* no state
C25_CancelButtonCancels ==
    \A t \in tasks :
        (t.text = CancelText /\ t.pc # "new")
        => /\ t.pc \in {"cancel_button", "answered"}
           /\ (t.pc = "answered" /\ \A o \in tasks : o = t)
                  => /\ user_contexts[t.user].current_act = None
                     /\ fsm[t.user] = None

\* a handler call of user u is in progress
InProgress(u) == \E t \in tasks : t.user = u /\ t.pc # "new"

\* C26: whenever no handler of a user is in progress and the state of the
\* user is waiting_for_confirmation, the context of the user holds an act
C26_ConfirmationHasAct ==
    \A u \in Users :
        (~InProgress(u) /\ fsm[u] = waiting_for_confirmation)
        => user_contexts[u].current_act # None

\* the number of previews and error reports among the replies to a message
Outcomes(id) ==
    Cardinality({k \in 1..Len(sent[id]) : sent[id][k].kind \in {"preview", "error"}})

\* C27: a message is handed to parse_act at most once and answered with at
\* most one preview or error report
C27_ParsedOnce ==
    \A id \in 1..Len(sent) : parses[id] <= 1 /\ Outcomes(id) <= 1

\* the task has saved its document and is sending it
Uploading(t) == t.pc = "confirmation.uploading"

\* C28: the file a handler sends is the document generated from the act of
\* its own user: handlers of different users never hold the same path, and
\* the file is not overwritten between its saving and its sending
C28_OwnDocumentSent ==
    \A t \in tasks :
        Uploading(t)
        => /\ files[t.path] = generate_act(template, t.act_data)
           /\ \A o \in tasks : (Uploading(o) /\ o.user # t.user) => o.path # t.path

====
